---- MODULE Spec2Model ----
(***************************************************************************)
(* A model of the salve-dom Validator (src/package.json, the text of       *)
(* src/main.ts): the resumable traversal (_cycle), the timer-driven        *)
(* scheduler (start/stop/_workWrapper/_work), the reset (restartAt), the   *)
(* location resolver (_validateUpTo/_getWalkerAt), the walker cache        *)
(* (readyWalker) and speculative validation.                               *)
(*                                                                         *)
(* The DOM is a fixed forest of small trees; the grammar engine (salve) is *)
(* an external collaborator, modelled as a deterministic automaton that    *)
(* remembers every event fired on it.                                      *)
(***************************************************************************)
EXTENDS Integers, Sequences, FiniteSets, TLC

\* ------------------------------------------------------------------ values

\* null (a missing node) and undefined (an expando property never set).
Null == 0
Undef == -1

\* ------------------------------------------------------------------ the DOM

QName(p, l) == [prefix |-> p, local |-> l]
NoName == QName("", "")

DocNode(ch) ==
  [kind |-> "document", name |-> NoName, data |-> "", parent |-> Null,
   owner |-> Null, attrs |-> <<>>, children |-> ch]
El(p, nm, at, ch) ==
  [kind |-> "element", name |-> nm, data |-> "", parent |-> p,
   owner |-> Null, attrs |-> at, children |-> ch]
Txt(p, d) ==
  [kind |-> "text", name |-> NoName, data |-> d, parent |-> p,
   owner |-> Null, attrs |-> <<>>, children |-> <<>>]
Cmt(p) ==
  [kind |-> "comment", name |-> NoName, data |-> "", parent |-> p,
   owner |-> Null, attrs |-> <<>>, children |-> <<>>]
Pi(p) ==
  [kind |-> "processing instruction", name |-> NoName, data |-> "", parent |-> p,
   owner |-> Null, attrs |-> <<>>, children |-> <<>>]
Att(o, nm, v) ==
  [kind |-> "attribute", name |-> nm, data |-> v, parent |-> Null,
   owner |-> o, attrs |-> <<>>, children |-> <<>>]

\* The forest.  Nodes 1..5: <a x="1"><b/><c/></a>.  Nodes 6..16:
\* <!-- --><a xmlns:p="urn:p">s<b y="1" q:z="2">t</b><!-- --><c/></a>.
\* Nodes 17..19 with 24..25: <b><c w="1" v="1"/></b>.  Nodes 20..21, 22..23
\* and 26..28 are the wrappers ("div") speculative validation builds around
\* the fragments <b/>, "u" and <b/>u.  Nodes 29..32: <a><q:b/><c/></a>, where
\* no prefix q is declared.  Nodes 33..38: <a>s<!-- -->t<b/></a>.  Nodes
\* 39..46: <a><b/><c><b/><b/><b/></c><c/></a>, whose portions (thirds and
\* ninths) are not exact in binary.  Nodes 47..49: <a><?p?></a>, with a node
\* of a kind the traversal does not expect.
Dom ==
  << DocNode(<<2>>),
     El(1, QName("", "a"), <<3>>, <<4, 5>>),
     Att(2, QName("", "x"), "1"),
     El(2, QName("", "b"), <<>>, <<>>),
     El(2, QName("", "c"), <<>>, <<>>),
     DocNode(<<7, 8>>),
     Cmt(6),
     El(6, QName("", "a"), <<9>>, <<10, 11, 15, 16>>),
     Att(8, QName("xmlns", "p"), "urn:p"),
     Txt(8, "s"),
     El(8, QName("", "b"), <<12, 13>>, <<14>>),
     Att(11, QName("", "y"), "1"),
     Att(11, QName("q", "z"), "2"),
     Txt(11, "t"),
     Cmt(8),
     El(8, QName("", "c"), <<>>, <<>>),
     DocNode(<<18>>),
     El(17, QName("", "b"), <<>>, <<19>>),
     El(18, QName("", "c"), <<24, 25>>, <<>>),
     El(Null, QName("", "div"), <<>>, <<21>>),
     El(20, QName("", "b"), <<>>, <<>>),
     El(Null, QName("", "div"), <<>>, <<23>>),
     Txt(22, "u"),
     Att(19, QName("", "w"), "1"),
     Att(19, QName("", "v"), "1"),
     El(Null, QName("", "div"), <<>>, <<27, 28>>),
     El(26, QName("", "b"), <<>>, <<>>),
     Txt(26, "u"),
     DocNode(<<30>>),
     El(29, QName("", "a"), <<>>, <<31, 32>>),
     El(30, QName("q", "b"), <<>>, <<>>),
     El(30, QName("", "c"), <<>>, <<>>),
     DocNode(<<34>>),
     El(33, QName("", "a"), <<>>, <<35, 36, 37, 38>>),
     Txt(34, "s"),
     Cmt(34),
     Txt(34, "t"),
     El(34, QName("", "b"), <<>>, <<>>),
     DocNode(<<40>>),
     El(39, QName("", "a"), <<>>, <<41, 42, 46>>),
     El(40, QName("", "b"), <<>>, <<>>),
     El(40, QName("", "c"), <<>>, <<43, 44, 45>>),
     El(42, QName("", "b"), <<>>, <<>>),
     El(42, QName("", "b"), <<>>, <<>>),
     El(42, QName("", "b"), <<>>, <<>>),
     El(40, QName("", "c"), <<>>, <<>>),
     DocNode(<<48>>),
     El(47, QName("", "a"), <<>>, <<49>>),
     Pi(48) >>

Nodes == DOMAIN Dom
Roots == {1, 6, 17, 29, 33}
Wrappers == {20, 22, 26}

Kind(n) == Dom[n].kind
ParentNode(n) == Dom[n].parent
ChildNodes(n) == Dom[n].children
Attributes(n) == Dom[n].attrs

\* node.childNodes[i] with the DOM's 0-based index; Null when out of range.
ChildAt(n, i) ==
  IF i >= 0 /\ i < Len(ChildNodes(n)) THEN ChildNodes(n)[i + 1] ELSE Null

\* _indexOf: 0-based position of needle in parent.childNodes, -1 if absent.
IndexOf(p, needle) ==
  IF \E i \in 1..Len(ChildNodes(p)) : ChildNodes(p)[i] = needle
  THEN (CHOOSE i \in 1..Len(ChildNodes(p)) : ChildNodes(p)[i] = needle) - 1
  ELSE -1

IsElement(n) == n # Null /\ Kind(n) = "element"

FirstChild(n) == ChildAt(n, 0)
NextSibling(n) == ChildAt(ParentNode(n), IndexOf(ParentNode(n), n) + 1)
PreviousSibling(n) == ChildAt(ParentNode(n), IndexOf(ParentNode(n), n) - 1)

ElementChildren(n) == SelectSeq(ChildNodes(n), LAMBDA c : Kind(c) = "element")
ChildElementCount(n) == Len(ElementChildren(n))
LastElementChild(n) ==
  IF ChildElementCount(n) = 0 THEN Null
  ELSE ElementChildren(n)[ChildElementCount(n)]

\* node.previousElementSibling: the nearest element before n in its parent.
PreviousElementSibling(n) ==
  LET p == ParentNode(n)
      k == IndexOf(p, n)
      before == {i \in 1..k : Kind(ChildNodes(p)[i]) = "element"}
  IN IF before = {} THEN Null
     ELSE ChildNodes(p)[CHOOSE i \in before : \A j \in before : j <= i]

\* The elements below n (firstElementChild/nextElementSibling closure).
RECURSIVE Descendants(_)
Descendants(n) ==
  {n} \cup UNION {Descendants(ChildNodes(n)[i]) : i \in 1..Len(ChildNodes(n))}

\* attr.name as the qualified string the DOM reports.
QStr(nm) == IF nm.prefix = "" THEN nm.local ELSE nm.prefix \o ":" \o nm.local

\* ------------------------------------------------- the grammar engine (salve)

\* An Event of the firing protocol: its name and up to two parameters.
Ev(k, a, b) == [kind |-> k, a |-> a, b |-> b]
ENTER_CONTEXT_EVENT == Ev("enterContext", "", "")
LEAVE_START_TAG_EVENT == Ev("leaveStartTag", "", "")
LEAVE_CONTEXT_EVENT == Ev("leaveContext", "", "")

\* The schema: start = element a { attribute x?, element b { attribute * { }*,
\* text }, element c { attribute w { "0" }? } }.
ChildModel(name) ==
  CASE name = "#document" -> <<"a">>
    [] name = "a" -> <<"b", "c">>
    [] OTHER -> <<>>
AttrWild(name) == name = "b"
AttrNames(name) ==
  CASE name = "a" -> {"x"}
    [] name = "c" -> {"w"}
    [] OTHER -> {}
AttrValues(name, attr) == IF name = "c" /\ attr = "w" THEN {"0"} ELSE {}
TextAllowed(name) == name = "b"

\* A walker: the events fired on it so far (hist), its namespace contexts
\* (innermost first), its open elements (innermost first, with the number of
\* children accepted), and whether it stands inside a start tag.
NewWalker ==
  [hist |-> <<>>, ctx |-> << {} >>,
   open |-> << [name |-> "#document", n |-> 0] >>, inTag |-> FALSE]

GrammarError(e) == [msg |-> "rejected", ev |-> e]

StartTagOk(w, e) ==
  LET top == Head(w.open)
      model == ChildModel(top.name)
  IN e.a = "" /\ top.n < Len(model) /\ model[top.n + 1] = e.b

AttributeOk(w, e) ==
  LET top == Head(w.open)
  IN w.inTag /\ (AttrWild(top.name) \/ (e.a = "" /\ e.b \in AttrNames(top.name)))

\* The value of the attribute whose name was fired last: any value, unless
\* the schema lists the values of that attribute.
AttributeValueOk(w, e) ==
  LET top == Head(w.open)
      last == w.hist[Len(w.hist)]
  IN (Len(w.hist) > 0 /\ last.kind = "attributeName"
      /\ AttrValues(top.name, last.b) # {}) =>
       e.a \in AttrValues(top.name, last.b)

EndTagOk(w) ==
  LET top == Head(w.open)
  IN Len(w.open) > 1 /\ top.n = Len(ChildModel(top.name))

\* walker.fireEvent(event): the walker it becomes and the errors it reports
\* (an empty sequence stands for salve's `false`).
FireEvent(w, e) ==
  LET h == [w EXCEPT !.hist = Append(@, e)]
      err == << GrammarError(e) >>
  IN CASE e.kind = "enterContext" ->
            [w |-> [h EXCEPT !.ctx = << {} >> \o @], errors |-> <<>>]
       [] e.kind = "leaveContext" ->
            [w |-> [h EXCEPT !.ctx = IF Len(@) > 1 THEN Tail(@) ELSE @],
             errors |-> <<>>]
       [] e.kind = "definePrefix" ->
            [w |-> [h EXCEPT !.ctx = << Head(@) \cup {<<e.a, e.b>>} >> \o Tail(@)],
             errors |-> <<>>]
       [] e.kind = "enterStartTag" ->
            [w |-> [h EXCEPT
                      !.open = << [name |-> IF e.a = "" THEN e.b ELSE "?", n |-> 0] >>
                               \o (IF StartTagOk(w, e)
                                   THEN << [Head(@) EXCEPT !.n = @ + 1] >> \o Tail(@)
                                   ELSE @),
                      !.inTag = TRUE],
             errors |-> IF StartTagOk(w, e) THEN <<>> ELSE err]
       [] e.kind = "attributeName" ->
            [w |-> h, errors |-> IF AttributeOk(w, e) THEN <<>> ELSE err]
       [] e.kind = "attributeValue" ->
            [w |-> h, errors |-> IF AttributeValueOk(w, e) THEN <<>> ELSE err]
       [] e.kind = "leaveStartTag" ->
            [w |-> [h EXCEPT !.inTag = FALSE], errors |-> <<>>]
       [] e.kind = "text" ->
            [w |-> h,
             errors |-> IF TextAllowed(Head(w.open).name) THEN <<>> ELSE err]
       [] e.kind = "endTag" ->
            [w |-> [h EXCEPT !.open = IF Len(@) > 1 THEN Tail(@) ELSE @],
             errors |-> IF EndTagOk(w) THEN <<>> ELSE err]
       [] OTHER -> [w |-> h, errors |-> <<>>]

\* walker.end(): the errors of an incomplete document.
WalkerEnd(w) ==
  IF Len(w.open) = 1 /\ Head(w.open).n = Len(ChildModel("#document"))
  THEN <<>>
  ELSE << [msg |-> "document incomplete", ev |-> Ev("end", "", "")] >>

\* walker.possible(): the events the walker accepts next, each with its name
\* pattern (wild: a wildcard name class).
Possible(w) ==
  LET top == Head(w.open)
      model == ChildModel(top.name)
  IN IF w.inTag
     THEN {[kind |-> "leaveStartTag", wild |-> FALSE, ns |-> "", name |-> ""]}
          \cup {[kind |-> "attributeName", wild |-> FALSE, ns |-> "", name |-> x] :
                  x \in AttrNames(top.name)}
          \cup (IF AttrWild(top.name)
                THEN {[kind |-> "attributeName", wild |-> TRUE, ns |-> "", name |-> ""]}
                ELSE {})
     ELSE (IF top.n < Len(model)
           THEN {[kind |-> "enterStartTag", wild |-> FALSE, ns |-> "",
                  name |-> model[top.n + 1]]}
           ELSE {})
          \cup (IF TextAllowed(top.name)
                THEN {[kind |-> "text", wild |-> FALSE, ns |-> "", name |-> ""]}
                ELSE {})
          \cup (IF EndTagOk(w)
                THEN {[kind |-> "endTag", wild |-> FALSE, ns |-> "", name |-> top.name]}
                ELSE {})

\* namePattern.match / namePattern.wildcardMatch.
PatternMatch(p, ns, name) == p.wild \/ (p.ns = ns /\ p.name = name)
PatternWildcardMatch(p, ns, name) == p.wild

\* The URI a prefix is bound to in a context stack, innermost first.
RECURSIVE LookupPrefix(_, _)
LookupPrefix(ctx, p) ==
  IF ctx = <<>> THEN [found |-> FALSE, uri |-> ""]
  ELSE IF \E d \in Head(ctx) : d[1] = p
       THEN [found |-> TRUE, uri |-> (CHOOSE d \in Head(ctx) : d[1] = p)[2]]
       ELSE LookupPrefix(Tail(ctx), p)

\* walker.resolveName(name, attribute): the expanded name, or ok = FALSE for
\* salve's `undefined` (a prefix no context defines).
ResolveName(w, nm, attribute) ==
  IF nm.prefix = ""
  THEN [ok |-> TRUE,
        ns |-> IF attribute THEN "" ELSE LookupPrefix(w.ctx, "").uri,
        name |-> nm.local]
  ELSE LET b == LookupPrefix(w.ctx, nm.prefix)
       IN [ok |-> b.found, ns |-> b.uri, name |-> nm.local]

\* isPossibleDueToWildcard(walker, eventName, ns, name).
IsPossibleDueToWildcard(w, eventName, ns, name) ==
  LET evs == {ev \in Possible(w) : ev.kind = eventName}
  IN /\ \E ev \in evs : PatternMatch(ev, ns, name)
     /\ \A ev \in evs :
          PatternMatch(ev, ns, name) => PatternWildcardMatch(ev, ns, name)

\* ------------------------------------------------------------- the Validator

\* Options defaults (class fields of Validator).
DefaultTimeout == 200
DefaultMaxTimespan == 100
DefaultWalkerCacheGap == 100

\* ------------------------------------------- numbers (IEEE 754 binary64)

\* _partDone and the portions are JavaScript numbers.  A number other than 0
\* is m * 2^e with a 53-bit mantissa m, 2^52 <= m < 2^53, held in three limbs
\* of 18 bits (h the highest); 0 has all limbs 0.  Only the non-negative,
\* normal numbers the progress arithmetic produces are modelled.
Limb == 262144
HighBit == 65536
Num0 == [h |-> 0, m |-> 0, l |-> 0, e |-> 0]
Num1 == [h |-> HighBit, m |-> 0, l |-> 0, e |-> -52]
IsZero(x) == x.h = 0 /\ x.m = 0 /\ x.l = 0

\* Mantissa arithmetic on the limbs; h takes what overflows.
Mant(h, m, l) == [h |-> h, m |-> m, l |-> l]
MantInc(q) ==
  IF q.l + 1 < Limb THEN Mant(q.h, q.m, q.l + 1)
  ELSE IF q.m + 1 < Limb THEN Mant(q.h, q.m + 1, 0)
       ELSE Mant(q.h + 1, 0, 0)
MantDouble(q, c) ==
  Mant(2 * q.h + (2 * q.m + (2 * q.l + c) \div Limb) \div Limb,
       (2 * q.m + (2 * q.l + c) \div Limb) % Limb,
       (2 * q.l + c) % Limb)
MantHalf(q) ==
  Mant(q.h \div 2, (q.m + (q.h % 2) * Limb) \div 2, (q.l + (q.m % 2) * Limb) \div 2)
MantAdd(p, q) ==
  Mant(p.h + q.h + (p.m + q.m + (p.l + q.l) \div Limb) \div Limb,
       (p.m + q.m + (p.l + q.l) \div Limb) % Limb,
       (p.l + q.l) % Limb)

\* The number with mantissa q (below 2^53) and exponent e, after the
\* mantissa is rounded up if `up`: a mantissa that reaches 2^53 is halved.
Rounded(q, e, up) ==
  IF up /\ MantInc(q).h = 2 * HighBit
  THEN [h |-> HighBit, m |-> 0, l |-> 0, e |-> e + 1]
  ELSE IF up THEN [h |-> MantInc(q).h, m |-> MantInc(q).m, l |-> MantInc(q).l, e |-> e]
       ELSE [h |-> q.h, m |-> q.m, l |-> q.l, e |-> e]

\* A mantissa with the bits shifted out of it: g the highest of them (the
\* guard bit), s whether any bit below it is 1 (the sticky bit).
Shifted(q, g, s) == [q |-> q, g |-> g, s |-> s]
ShiftOnce(t) == Shifted(MantHalf(t.q), t.q.l % 2, t.s \/ t.g = 1)
RECURSIVE ShiftRight(_, _)
ShiftRight(t, d) == IF d = 0 THEN t ELSE ShiftRight(ShiftOnce(t), d - 1)

\* Round to nearest, ties to even.
RoundUp(t) == t.g = 1 /\ (t.s \/ t.q.l % 2 = 1)

\* a + b for a, b other than 0 with a.e - b.e = d >= 0: the mantissa of b is
\* aligned, the sum is brought below 2^53 and rounded.
SumRounded(t, e) ==
  IF t.q.h >= 2 * HighBit
  THEN Rounded(ShiftOnce(t).q, e + 1, RoundUp(ShiftOnce(t)))
  ELSE Rounded(t.q, e, RoundUp(t))
SumAligned(a, t) == SumRounded(Shifted(MantAdd(a, t.q), t.g, t.s), a.e)
AddAligned(a, b, d) ==
  IF d >= 55 THEN a
  ELSE SumAligned(a, ShiftRight(Shifted(Mant(b.h, b.m, b.l), 0, FALSE), d))

\* a + b.
NumAdd(a, b) ==
  IF IsZero(a) THEN b
  ELSE IF IsZero(b) THEN a
  ELSE IF a.e >= b.e THEN AddAligned(a, b, a.e - b.e)
  ELSE AddAligned(b, a, b.e - a.e)

\* The quotient and the remainder, with the number s of binary places the
\* quotient was scaled by.
Quotient(q, r, s) == [q |-> q, r |-> r, s |-> s]

\* The mantissa of x divided by the integer k, 0 < k < 2^13, limb by limb.
LongDivide(x, k) ==
  Quotient(Mant(x.h \div k,
                ((x.h % k) * Limb + x.m) \div k,
                ((((x.h % k) * Limb + x.m) % k) * Limb + x.l) \div k),
           ((((x.h % k) * Limb + x.m) % k) * Limb + x.l) % k,
           0)

\* The quotient scaled by powers of two until it has 53 bits.
RECURSIVE Scale(_, _)
Scale(d, k) ==
  IF d.q.h >= HighBit THEN d
  ELSE Scale(Quotient(MantDouble(d.q, (2 * d.r) \div k), (2 * d.r) % k, d.s + 1), k)

\* The scaled quotient rounded by its remainder: to nearest, ties to even.
QuotientRounded(d, e, k) ==
  Rounded(d.q, e - d.s, 2 * d.r > k \/ (2 * d.r = k /\ d.q.l % 2 = 1))

\* x / k for an integer k, 0 < k < 2^13.
NumDiv(x, k) ==
  IF IsZero(x) THEN Num0 ELSE QuotientRounded(Scale(LongDivide(x, k), k), x.e, k)

\* a <= b.
NumLeq(a, b) ==
  \/ IsZero(a)
  \/ /\ ~IsZero(b)
     /\ \/ a.e < b.e
        \/ a.e = b.e /\ a.h < b.h
        \/ a.e = b.e /\ a.h = b.h /\ a.m < b.m
        \/ a.e = b.e /\ a.h = b.h /\ a.m = b.m /\ a.l <= b.l

\* ProgressState(partDone, portion).  PartUnit is the number 1: the root's
\* portion, and _partDone when the pass is complete.
PartUnit == Num1
ProgressState(partDone, portion) == [partDone |-> partDone, portion |-> portion]

\* The expando properties of a node (CustomNodeProperties), all undefined.
NoProps ==
  [EventIndexAfter |-> Undef, EventIndexAfterStart |-> Undef,
   EventIndexBeforeAttributes |-> Undef, EventIndexAfterAttributes |-> Undef,
   PossibleDueToWildcard |-> Undef]
PropertyKeys ==
  {"EventIndexAfter", "EventIndexAfterStart", "EventIndexBeforeAttributes",
   "EventIndexAfterAttributes", "PossibleDueToWildcard"}
BoolVal(b) == IF b THEN 1 ELSE 0

GetNodeProperty(v, node, key) == v.props[node][key]
SetNodeProperty(v, node, key, value) == [v EXCEPT !.props[node][key] = value]
ClearNodeProperties(v, node) == [v EXCEPT !.props[node] = NoProps]

\* _setWorkingState(newState, newDone).
SetWorkingState(v, newState, newDone) ==
  [v EXCEPT !.workingState = newState, !.partDone = newDone]

\* new Validator(schema, root, options): the fields' initial values and the
\* constructor's body.  props is the state of the expando properties of all
\* nodes, which the validator reads and writes under its prefix.  listening
\* tells whether a listener of "error" that queries the validator is
\* registered, and heard what became of its last query.  resetErrors is the
\* number of "reset-errors" notifications a listener of them has received,
\* Undef while none is registered.  handler names the call a one-time
\* listener of "state-update" makes ("none" if none is registered), and, once
\* it has run, the call it made.
NewValidator(root, gap, props) ==
  SetWorkingState(
    SetNodeProperty(
      [root |-> root,
       cycleEntered |-> 0,
       timeoutId |-> Undef,
       timers |-> {},
       restarting |-> FALSE,
       errors |-> <<>>,
       validationEvents |-> <<>>,
       validationWalker |-> NewWalker,
       workingState |-> "INCOMPLETE",
       partDone |-> Num0,
       validationStage |-> "CONTENTS",
       previousChild |-> Null,
       validationStack |-> << ProgressState(Num0, PartUnit) >>,
       curEl |-> root,
       walkerCache |-> {},
       walkerCacheMax |-> -1,
       walkerCacheGap |-> gap,
       props |-> props,
       listening |-> FALSE,
       heard |-> "none",
       wildcardChanges |-> {},
       resetErrors |-> Undef,
       handler |-> "none"],
      root, "EventIndexAfterStart", 0),
    "INCOMPLETE", Num0)

\* What belongs to the traversal step in flight.
InFlight(v) ==
  <<v.cycleEntered, v.validationStage, v.curEl, v.previousChild,
    v.validationEvents, v.validationWalker, v.errors>>

\* A faulty CycleEntry: a step is let in whatever the counter says.
CycleEntryOpen(v) == "none"

\* The entry of _cycle: the error it throws there, "none" if the step goes
\* on.
CycleEntry(v) ==
  IF v.cycleEntered > 0 THEN "_cycle is being reentered"
  ELSE IF v.cycleEntered < 0 THEN "_cycleEntered negative"
  ELSE "none"

\* possibleAt(root, -1) called by a listener: _validateUpTo calls _cycle if
\* EventIndexAfter of the root is undefined, and that call is followed up to
\* its entry.  entered tells whether the inner step went on past it.
ListenerQuery(v) ==
  IF GetNodeProperty(v, v.root, "EventIndexAfter") # Undef
  THEN [v |-> v, exc |-> "none", entered |-> FALSE]
  ELSE [v |-> [v EXCEPT !.restarting = FALSE], exc |-> CycleEntry(v),
        entered |-> CycleEntry(v) = "none"]

\* The listener's query is over, with result r: heard is the error the
\* listener caught, or StepDisturbed if a second step went on or the step in
\* flight is not as it was.
StepDisturbed == "step in flight disturbed"
Listened(v, r) ==
  [r.v EXCEPT !.heard =
     IF r.entered \/ InFlight(r.v) # InFlight(v) \/ v.cycleEntered > 1
     THEN StepDisturbed
     ELSE IF r.exc # "none" /\ @ # StepDisturbed THEN r.exc ELSE @]

\* this._events._emit("error", error): a listener, if one is registered,
\* calls possibleAt(root, -1) and catches what it throws.
Emit(v) == IF v.listening THEN Listened(v, ListenerQuery(v)) ELSE v

\* _processError(error): appends to the error list and publishes the error.
ProcessError(v, error) == Emit([v EXCEPT !.errors = Append(@, error)])

\* _processEventResult(results, node, index).
RECURSIVE ProcessEventResult(_, _, _, _)
ProcessEventResult(v, results, node, index) ==
  IF results = <<>> THEN v
  ELSE ProcessEventResult(
         ProcessError(v, [error |-> Head(results), node |-> node, index |-> index]),
         Tail(results), node, index)

\* The end of _fireAndProcessEvent: the errors of the result r of fireEvent
\* are recorded at (el, ix).
ProcessFired(v, r, el, ix) ==
  [v |-> ProcessEventResult(v, r.errors, el, ix), walker |-> r.w]

\* _fireAndProcessEvent(walker, event, el, ix): the event is pushed on the
\* validator's event list and fired on `walker`, whichever walker that is.
\* The result holds the validator and the walker after the call.
FireAndProcessEvent(v, walker, event, el, ix) ==
  ProcessFired([v EXCEPT !.validationEvents = Append(@, event)],
               FireEvent(walker, event), el, ix)

\* A faulty notification: every evaluation of the flag is published.
PublishAlways(v, node, previous, possible) ==
  [v EXCEPT !.wildcardChanges = @ \cup {node}]

\* The end of _setPossibleDueToWildcard: "possible-due-to-wildcard-change" is
\* emitted for the node if the flag was undefined or had the other value.
\* wildcardChanges is the set of nodes the event has been emitted for.
PublishChange(v, node, previous, possible) ==
  IF previous = Undef \/ previous # possible
  THEN [v EXCEPT !.wildcardChanges = @ \cup {node}]
  ELSE v

\* _setPossibleDueToWildcard, once `possible` is computed.
SetWildcardFlag(v, node, possible) ==
  PublishChange(SetNodeProperty(v, node, "PossibleDueToWildcard", possible),
                node, GetNodeProperty(v, node, "PossibleDueToWildcard"), possible)

\* _setPossibleDueToWildcard(node, walker, eventName, ns, name).
SetPossibleDueToWildcard(v, node, walker, eventName, ns, name) ==
  SetWildcardFlag(v, node,
                  BoolVal(IsPossibleDueToWildcard(walker, eventName, ns, name)))

\* The result of _fireAttributeNameEvent: r after the firing, and what the
\* method returns.
Returning(r, fired) == [v |-> r.v, walker |-> r.walker, fired |-> fired]

\* _fireAttributeNameEvent(walker, el, attr), once the name is resolved.
FireResolvedAttributeName(v, walker, attr, ename) ==
  IF ~ename.ok
  THEN [v |-> ProcessError(v, [error |-> [msg |-> "cannot resolve attribute name",
                                          ev |-> Ev("attributeName", "",
                                                    QStr(Dom[attr].name))],
                               node |-> attr, index |-> 0]),
        walker |-> walker, fired |-> FALSE]
  ELSE Returning(
         FireAndProcessEvent(
           SetPossibleDueToWildcard(v, attr, walker, "attributeName",
                                    ename.ns, ename.name),
           walker, Ev("attributeName", ename.ns, ename.name), attr, 0),
         TRUE)

\* _fireAttributeNameEvent(walker, el, attr).
FireAttributeNameEvent(v, walker, el, attr) ==
  FireResolvedAttributeName(v, walker, attr, ResolveName(walker, Dom[attr].name, TRUE))

\* attr.name === "xmlns" || attr.name.lastIndexOf("xmlns", 0) === 0.
StartsWithXmlns(nm) == nm.prefix = "xmlns" \/ (nm.prefix = "" /\ nm.local = "xmlns")

\* The attributeValue event of _fireAttributeEvents, fired if the name was.
FireAttributeValue(n, attr) ==
  IF n.fired
  THEN FireAndProcessEvent(n.v, n.walker, Ev("attributeValue", Dom[attr].data, ""),
                           attr, 0)
  ELSE [v |-> n.v, walker |-> n.walker]

\* _fireAttributeEvents(walker, el), from attribute number i on.
RECURSIVE FireAttributeEvents(_, _, _, _)
RECURSIVE NextAttribute(_, _, _)
FireAttributeEvents(v, walker, el, i) ==
  IF i > Len(Attributes(el)) THEN [v |-> v, walker |-> walker]
  ELSE IF StartsWithXmlns(Dom[Attributes(el)[i]].name)
       THEN FireAttributeEvents(v, walker, el, i + 1)
       ELSE NextAttribute(
              FireAttributeValue(
                FireAttributeNameEvent(v, walker, el, Attributes(el)[i]),
                Attributes(el)[i]),
              el, i + 1)
NextAttribute(r, el, i) == FireAttributeEvents(r.v, r.walker, el, i)

\* The walker fired on becomes the validator's _validationWalker (inside
\* _cycle, `walker` is that very object).
KeepWalker(r) == [r.v EXCEPT !.validationWalker = r.walker]

\* this._fireAndProcessEvent(walker, ...) inside _cycle.
FireLive(v, event, el, ix) ==
  KeepWalker(FireAndProcessEvent(v, v.validationWalker, event, el, ix))

\* The definePrefix loop of the START_TAG stage, from attribute number i on.
RECURSIVE DefinePrefixes(_, _, _)
DefinePrefixes(v, el, i) ==
  IF i > Len(Attributes(el)) THEN v
  ELSE DefinePrefixes(
         IF Dom[Attributes(el)[i]].name = QName("", "xmlns")
         THEN FireLive(v, Ev("definePrefix", "", Dom[Attributes(el)[i]].data), el, 0)
         ELSE IF Dom[Attributes(el)[i]].name.prefix = "xmlns"
              THEN FireLive(v, Ev("definePrefix", Dom[Attributes(el)[i]].name.local,
                                  Dom[Attributes(el)[i]].data), el, 0)
              ELSE v,
         el, i + 1)

\* setTimeout(this._boundWrapper, ...): a new pending timer, whose id is kept
\* in _timeoutId.
SetTimeout(v) ==
  [v EXCEPT
     !.timeoutId = CHOOSE i \in 1..(Cardinality(v.timers) + 1) : i \notin v.timers,
     !.timers = @ \cup {CHOOSE i \in 1..(Cardinality(v.timers) + 1) : i \notin v.timers}]

\* clearTimeout(this._timeoutId); this._timeoutId = undefined.
ClearTimeout(v) == [v EXCEPT !.timers = @ \ {v.timeoutId}, !.timeoutId = Undef]

\* The state part of _stop(state).
StopState(v, state) ==
  IF state = "undefined"
  THEN IF v.workingState = "WORKING"
       THEN SetWorkingState(v, "INCOMPLETE", v.partDone)
       ELSE v
  ELSE SetWorkingState(v, state, v.partDone)

\* A faulty Stop: the pending timer is left to fire.
StopKeepTimer(v, state) == StopState(v, state)

\* _stop(state); state = "undefined" is the call without argument.
Stop(v, state) == StopState(ClearTimeout(v), state)

\* A faulty Start: the pending timer is not cleared before a new one is set.
StartKeepTimer(v) == SetTimeout(v)

\* start().
Start(v) ==
  SetTimeout(IF v.timeoutId # Undef THEN Stop(v, "WORKING") ELSE v)

\* _erase(el): clears the properties of el and of the elements below it.
Erase(v, el) ==
  [v EXCEPT !.props = [n \in Nodes |->
                         IF n \in Descendants(el) /\ (n = el \/ Kind(n) = "element")
                         THEN NoProps ELSE @[n]]]

\* events.addEventListener("reset-errors", ...): a listener that counts the
\* notifications it receives.
OnResetErrors(v) == [v EXCEPT !.resetErrors = 0]

\* this._events._emit("reset-errors", { at: 0 }).
EmitResetErrors(v) ==
  IF v.resetErrors = Undef THEN v ELSE [v EXCEPT !.resetErrors = @ + 1]

\* A faulty _resetTo: the error list survives the reset.
ResetToKeepErrors(v, node) ==
  EmitResetErrors(
    [Erase(v, v.root) EXCEPT
       !.validationStage = "CONTENTS",
       !.previousChild = Null,
       !.validationWalker = NewWalker,
       !.validationEvents = <<>>,
       !.curEl = v.root,
       !.partDone = Num0,
       !.walkerCache = {},
       !.walkerCacheMax = -1])

\* _resetTo(node).
ResetTo(v, node) ==
  EmitResetErrors(
    [Erase(v, v.root) EXCEPT
       !.validationStage = "CONTENTS",
       !.previousChild = Null,
       !.validationWalker = NewWalker,
       !.validationEvents = <<>>,
       !.curEl = v.root,
       !.partDone = Num0,
       !.errors = <<>>,
       !.walkerCache = {},
       !.walkerCacheMax = -1])

\* A faulty restartAt: every call resets.
RestartAtAlways(v, node) == Start(ResetTo([v EXCEPT !.restarting = TRUE], node))

\* restartAt(node).
RestartAt(v, node) ==
  Start(IF ~v.restarting THEN ResetTo([v EXCEPT !.restarting = TRUE], node) ELSE v)

\* A listener of "state-update" is registered through `events`: it calls
\* stop() or restartAt(root), as `call` says, the first time it is notified,
\* and does nothing after that.
OnStateUpdate(v, call) == [v EXCEPT !.handler = call]

\* The listener of "state-update" runs, and is gone.
RunHandler(v) ==
  IF v.handler = "stop"
  THEN Stop([v EXCEPT !.handler = "called stop"], "undefined")
  ELSE RestartAt([v EXCEPT !.handler = "called restartAt"], v.root)

\* The end of _setWorkingState, which turned `old` into v: "state-update" is
\* published if the state or the part done changed.
EmitStateUpdate(old, v) ==
  IF v.handler \in {"stop", "restartAt"}
     /\ (old.workingState # v.workingState \/ old.partDone # v.partDone)
  THEN RunHandler(v)
  ELSE v

\* START_TAG: the progress frame, enterContext and the definePrefix events.
StartTagContext(v, portion) ==
  DefinePrefixes(
    FireLive([v EXCEPT !.validationStack =
                << ProgressState(v.partDone, portion) >> \o @],
             ENTER_CONTEXT_EVENT, v.curEl, 0),
    v.curEl, 1)

\* A faulty StartTagResolve: a tag name that does not resolve is passed over
\* in silence.
StartTagResolveSilent(v, res) == v

\* START_TAG: the error of a tag name that does not resolve.
StartTagResolve(v, res) ==
  IF res.ok THEN v
  ELSE ProcessEventResult(
         v, << [msg |-> "cannot resolve the name",
                ev |-> Ev("enterStartTag", "", QStr(Dom[v.curEl].name))] >>,
         ParentNode(v.curEl), IndexOf(ParentNode(v.curEl), v.curEl))

\* The name START_TAG and END_TAG go on with: the resolved one, or the tag
\* name in no namespace.
EName(res, nm) ==
  IF res.ok THEN [ns |-> res.ns, name |-> res.name]
  ELSE [ns |-> "", name |-> QStr(nm)]

\* A faulty StartTagEnter: the errors of enterStartTag are recorded against
\* the element itself.
StartTagEnterAtElement(v, ename) ==
  FireLive(SetPossibleDueToWildcard(v, v.curEl, v.validationWalker, "enterStartTag",
                                    ename.ns, ename.name),
           Ev("enterStartTag", ename.ns, ename.name), v.curEl, 0)

\* START_TAG: the wildcard flag and enterStartTag.
StartTagEnter(v, ename) ==
  FireLive(SetPossibleDueToWildcard(v, v.curEl, v.validationWalker, "enterStartTag",
                                    ename.ns, ename.name),
           Ev("enterStartTag", ename.ns, ename.name),
           ParentNode(v.curEl), IndexOf(ParentNode(v.curEl), v.curEl))

\* START_TAG: the tag name is resolved, then fired.
StartTagName(v) ==
  StartTagEnter(
    StartTagResolve(v, ResolveName(v.validationWalker, Dom[v.curEl].name, FALSE)),
    EName(ResolveName(v.validationWalker, Dom[v.curEl].name, FALSE), Dom[v.curEl].name))

\* this._setNodeProperty(node, key, events.length).
MarkEventIndex(v, node, key) ==
  SetNodeProperty(v, node, key, Len(v.validationEvents))

\* START_TAG: the attribute events, between the two attribute indices.
StartTagAttributes(v) ==
  MarkEventIndex(
    KeepWalker(FireAttributeEvents(
                 MarkEventIndex(v, v.curEl, "EventIndexBeforeAttributes"),
                 v.validationWalker, v.curEl, 1)),
    v.curEl, "EventIndexAfterAttributes")

\* A faulty StartTagLeave: EventIndexAfterStart is taken before leaveStartTag
\* is fired.
StartTagLeaveEarly(v) ==
  [FireLive(MarkEventIndex(v, v.curEl, "EventIndexAfterStart"),
            LEAVE_START_TAG_EVENT, v.curEl, 0)
     EXCEPT !.validationStage = "CONTENTS"]

\* START_TAG: leaveStartTag, the stage change and EventIndexAfterStart.
StartTagLeave(v) ==
  MarkEventIndex(
    [FireLive(v, LEAVE_START_TAG_EVENT, v.curEl, 0)
       EXCEPT !.validationStage = "CONTENTS"],
    v.curEl, "EventIndexAfterStart")

\* What a step returns: cycleEntered is decremented before it does.
StepDone(v, ret) ==
  [v |-> [v EXCEPT !.cycleEntered = @ - 1], ret |-> ret, exc |-> "none"]

\* A faulty StartTag: the attribute events are fired before enterStartTag.
StartTagAttributesFirst(v, portion) ==
  StepDone(StartTagLeave(StartTagName(StartTagAttributes(StartTagContext(v, portion)))),
           TRUE)

\* The START_TAG stage of _cycle.
StartTag(v, portion) ==
  StepDone(StartTagLeave(StartTagAttributes(StartTagName(StartTagContext(v, portion)))),
           TRUE)

\* A faulty join: only the last text node found is passed on.
JoinLast(strs) == IF strs = <<>> THEN "" ELSE strs[Len(strs)]

\* textAccumulator.join("").
RECURSIVE Join(_)
Join(strs) == IF strs = <<>> THEN "" ELSE Head(strs) \o Join(Tail(strs))

\* The end of flushText(): the errors of the text event belong to the parent
\* of the first text node, at that node's index.
ProcessText(v, r, textAccumulatorNode) ==
  ProcessEventResult([v EXCEPT !.validationWalker = r.w], r.errors,
                     ParentNode(textAccumulatorNode),
                     IndexOf(ParentNode(textAccumulatorNode), textAccumulatorNode))

\* flushText() of the CONTENTS stage: the text event is fired on the walker
\* directly.
FlushText(v, textAccumulator, textAccumulatorNode) ==
  IF textAccumulator = <<>> THEN v
  ELSE ProcessText(v, FireEvent(v.validationWalker,
                                Ev("text", Join(textAccumulator), "")),
                   textAccumulatorNode)

\* The CONTENTS stage of _cycle, from child `node` on.  The result holds the
\* portion, which the stage divides when it descends.
RECURSIVE Contents(_, _, _, _, _)
Contents(v, portion, node, textAccumulator, textAccumulatorNode) ==
  IF node = Null
  THEN [v |-> [FlushText(v, textAccumulator, textAccumulatorNode)
                 EXCEPT !.validationStage = "END_TAG"],
        portion |-> portion, exc |-> "none"]
  ELSE CASE Kind(node) = "text" ->
              Contents(v, portion, NextSibling(node),
                       Append(textAccumulator, Dom[node].data),
                       IF textAccumulatorNode = Null THEN node
                       ELSE textAccumulatorNode)
         [] Kind(node) = "element" ->
              [v |-> [FlushText(v, textAccumulator, textAccumulatorNode)
                        EXCEPT !.curEl = node, !.validationStage = "START_TAG",
                               !.previousChild = Null],
               portion |-> NumDiv(portion, ChildElementCount(v.curEl)),
               exc |-> "none"]
         [] Kind(node) = "comment" ->
              Contents(v, portion, NextSibling(node), textAccumulator,
                       textAccumulatorNode)
         [] OTHER ->
              [v |-> v, portion |-> portion, exc |-> "unexpected node type"]

\* _runDocumentValidation(): the default implementation does nothing.
RunDocumentValidation(v) == v

\* A faulty StopAtEnd: the validator stops as VALID whatever the error list.
StopAtEndValid(v) == Stop(v, "VALID")

\* END_TAG at the root: the working state the validator stops with.
StopAtEnd(v) ==
  EmitStateUpdate(v, Stop(v, IF Len(v.errors) > 0 THEN "INVALID" ELSE "VALID"))

\* END_TAG at the root: end(), the document validation, EventIndexAfter,
\* _partDone = 1 and the stop.
EndRoot(v) ==
  StopAtEnd(
    [MarkEventIndex(
       RunDocumentValidation(
         ProcessEventResult(v, WalkerEnd(v.validationWalker), v.curEl,
                            Len(ChildNodes(v.curEl)))),
       v.curEl, "EventIndexAfter")
       EXCEPT !.partDone = PartUnit])

\* END_TAG below the root: endTag and leaveContext.
CloseElement(v, ename) ==
  FireLive(FireLive(v, Ev("endTag", ename.ns, ename.name), v.curEl,
                    Len(ChildNodes(v.curEl))),
           LEAVE_CONTEXT_EVENT, v.curEl, Len(ChildNodes(v.curEl)))

\* END_TAG below the root, once back in the parent (v.curEl): the frame of
\* the element is popped and folded into its parent's, unless the parent is
\* the root.
FoldProgress(v, portion) ==
  EmitStateUpdate(
    v,
    IF v.curEl # v.root
    THEN SetWorkingState(
           [v EXCEPT !.validationStack =
              << [Head(Tail(@)) EXCEPT !.partDone = NumAdd(@, portion)] >> \o Tail(Tail(@))],
           "WORKING", NumAdd(Head(Tail(v.validationStack)).partDone, portion))
    ELSE SetWorkingState(v, "WORKING", v.partDone))

\* END_TAG below the root: the ascent, the progress, EventIndexAfter of the
\* element left and the stage change.
Ascend(v, originalElement, portion) ==
  [MarkEventIndex(
     FoldProgress([v EXCEPT !.previousChild = originalElement,
                            !.curEl = ParentNode(originalElement)],
                  portion),
     originalElement, "EventIndexAfter")
     EXCEPT !.validationStage = "CONTENTS"]

\* The END_TAG stage of _cycle.
EndTag(v, portion) ==
  IF v.curEl = v.root
  THEN StepDone(EndRoot(v), FALSE)
  ELSE StepDone(
         Ascend(CloseElement(
                  v, EName(ResolveName(v.validationWalker, Dom[v.curEl].name, FALSE),
                           Dom[v.curEl].name)),
                v.curEl, portion),
         TRUE)

\* A faulty AfterContents: the step yields when the contents lead to a child
\* element, whose start tag is left to the next step.
AfterContentsYield(c) ==
  IF c.exc # "none" THEN [v |-> c.v, ret |-> FALSE, exc |-> c.exc]
  ELSE IF c.v.validationStage = "START_TAG" THEN StepDone(c.v, TRUE)
       ELSE EndTag(c.v, c.portion)

\* _cycle after the CONTENTS stage: the stage it changed to, in the same step.
AfterContents(c) ==
  IF c.exc # "none" THEN [v |-> c.v, ret |-> FALSE, exc |-> c.exc]
  ELSE IF c.v.validationStage = "START_TAG" THEN StartTag(c.v, c.portion)
       ELSE EndTag(c.v, c.portion)

\* _cycle past its re-entrancy check.
CycleStages(v, portion) ==
  CASE v.validationStage = "START_TAG" -> StartTag(v, portion)
    [] v.validationStage = "CONTENTS" ->
         AfterContents(Contents(v, portion,
                                IF v.previousChild = Null THEN FirstChild(v.curEl)
                                ELSE NextSibling(v.previousChild),
                                <<>>, Null))
    [] v.validationStage = "END_TAG" -> EndTag(v, portion)
    [] OTHER -> [v |-> v, ret |-> FALSE, exc |-> "unexpected state"]

\* _cycle(): one traversal step.  ret is its result; exc names the error it
\* throws, if any (v is then the state the throw leaves behind).
Cycle(v) ==
  IF CycleEntry(v) # "none"
  THEN [v |-> [v EXCEPT !.restarting = FALSE], ret |-> FALSE,
        exc |-> CycleEntry(v)]
  ELSE CycleStages([v EXCEPT !.restarting = FALSE, !.cycleEntered = @ + 1],
                   Head(v.validationStack).portion)

\* _work(): steps until none is left or the time of a tick is used up, which
\* happens after `steps` steps.
RECURSIVE Work(_, _)
RECURSIVE NextWork(_, _)
Work(v, steps) ==
  IF steps = 0 THEN [v |-> v, ret |-> TRUE, exc |-> "none"]
  ELSE NextWork(Cycle(v), steps - 1)
NextWork(c, steps) == IF c.exc # "none" \/ ~c.ret THEN c ELSE Work(c.v, steps)

\* A faulty Reschedule: no next tick is ever scheduled.
RescheduleNever(w) == w.v

\* The end of _workWrapper: the next tick is scheduled if _work returned true.
Reschedule(w) == IF w.exc = "none" /\ w.ret THEN SetTimeout(w.v) ELSE w.v

\* _workWrapper(), called when timer `id` fires.
WorkWrapper(v, id, steps) == Reschedule(Work([v EXCEPT !.timers = @ \ {id}], steps))

\* ------------------------------------------------------ the location resolver

IsAttr(n) == Kind(n) = "attribute"

\* The guard both _validateUpTo and _getWalkerAt start with.
BadAttributesRequest(container, index, attributes) ==
  attributes /\ ~IsElement(ChildAt(container, index))

\* The previous element _getWalkerAt and _validateUpTo start from in an
\* element or document container.
Prev(container, index) ==
  IF ChildAt(container, index) = Null THEN LastElementChild(container)
  ELSE PreviousElementSibling(ChildAt(container, index))

\* node && node.previousSibling.
PrevSibling(container, index) ==
  IF ChildAt(container, index) = Null THEN Null
  ELSE PreviousSibling(ChildAt(container, index))

\* The node and property _validateUpTo waits for (toInspect, dataKey); skip
\* when it returns at once, exc when it throws.
Target(v, container, index, attributes) ==
  LET t(n, k) == [toInspect |-> n, dataKey |-> k, skip |-> FALSE, exc |-> "none"]
  IN IF container = v.root /\ index <= 0
     THEN IF attributes THEN t(ChildAt(container, index), "EventIndexAfterAttributes")
          ELSE IF index = 0
               THEN [toInspect |-> container, dataKey |-> "EventIndexAfter",
                     skip |-> TRUE, exc |-> "none"]
               ELSE t(container, "EventIndexAfter")
     ELSE IF IsAttr(container)
          THEN t(Dom[container].owner, "EventIndexBeforeAttributes")
          ELSE CASE Kind(container) = "text" ->
                      IF PreviousElementSibling(container) # Null
                      THEN t(PreviousElementSibling(container), "EventIndexAfter")
                      ELSE t(ParentNode(container), "EventIndexAfterStart")
                 [] Kind(container) \in {"element", "document"} ->
                      IF Prev(container, index) # Null
                      THEN t(Prev(container, index), "EventIndexAfter")
                      ELSE IF attributes
                           THEN t(ChildAt(container, index), "EventIndexAfterAttributes")
                           ELSE t(container, "EventIndexAfterStart")
                 [] OTHER ->
                      [toInspect |-> container, dataKey |-> "EventIndexAfter",
                       skip |-> FALSE, exc |-> "unexpected node type"]

\* The loop of _validateUpTo: steps until the property is set.  A step that
\* finalizes the root leaves the traversal at the root's END_TAG stage for
\* good; if the property is still undefined then, the loop never ends ("hang").
RECURSIVE CatchUp(_, _, _)
RECURSIVE NextCatchUp(_, _, _)
CatchUp(v, toInspect, dataKey) ==
  IF GetNodeProperty(v, toInspect, dataKey) # Undef THEN [v |-> v, exc |-> "none"]
  ELSE NextCatchUp(Cycle(v), toInspect, dataKey)
NextCatchUp(c, toInspect, dataKey) ==
  IF c.exc # "none" THEN [v |-> c.v, exc |-> c.exc]
  ELSE IF ~c.ret /\ GetNodeProperty(c.v, toInspect, dataKey) = Undef
       THEN [v |-> c.v, exc |-> "hang"]
       ELSE CatchUp(c.v, toInspect, dataKey)

\* _validateUpTo once toInspect and dataKey are computed (t).
ValidateUpToTarget(v, t) ==
  IF t.exc # "none" THEN [v |-> v, exc |-> t.exc]
  ELSE IF t.skip THEN [v |-> v, exc |-> "none"]
       ELSE CatchUp(v, t.toInspect, t.dataKey)

\* _validateUpTo(container, index, attributes).
ValidateUpTo(v, container, index, attributes) ==
  IF BadAttributesRequest(container, index, attributes)
  THEN [v |-> v, exc |-> "not an element node"]
  ELSE ValidateUpToTarget(v, Target(v, container, index, attributes))

\* ------------------------------------------------------------ the walker cache

\* walker.clone(): an independent walker in the same state.
Clone(w) == w

\* A walker a method returns may be the very object the cache holds under a
\* key, or the validator's own walker: alias is that key, LiveAlias, or Undef
\* for an object nothing else holds.
LiveAlias == -2

\* walker = walker.clone() on a returned walker r.
Cloned(r) == [r EXCEPT !.alias = Undef]

CacheHas(v, ix) == \E c \in v.walkerCache : c.ix = ix
CacheGet(v, ix) == (CHOOSE c \in v.walkerCache : c.ix = ix).walker
\* A faulty CachePut: the new entry replaces the whole cache.
CachePutAlone(v, ix, walker) ==
  [v EXCEPT !.walkerCache = {[ix |-> ix, walker |-> walker]}]

CachePut(v, ix, walker) ==
  [v EXCEPT !.walkerCache =
     {c \in @ : c.ix # ix} \cup {[ix |-> ix, walker |-> walker]}]

\* The replay loop of readyWalker: events[from .. to - 1], 0-based.
RECURSIVE Replay(_, _, _, _)
Replay(walker, events, from, to) ==
  IF from >= to THEN walker
  ELSE Replay(FireEvent(walker, events[from + 1]).w, events, from + 1, to)

\* The index readyWalker starts its replay from: the cached index it found,
\* or -1 when it found none.
SearchIx(v, eventIndex) ==
  IF eventIndex >= v.walkerCacheMax
  THEN IF CacheHas(v, v.walkerCacheMax) THEN v.walkerCacheMax ELSE -1
  ELSE IF \E i \in 0..(eventIndex - 1) : CacheHas(v, i)
       THEN CHOOSE i \in 0..(eventIndex - 1) :
              CacheHas(v, i) /\ \A j \in (i + 1)..(eventIndex - 1) : ~CacheHas(v, j)
       ELSE -1

\* A faulty CacheIfFar: every walker readyWalker computes is cached.
CacheAlways(v, eventIndex, searchIx, walker) ==
  [v |-> [CachePut(v, eventIndex, walker) EXCEPT
            !.walkerCacheMax = IF eventIndex > @ THEN eventIndex ELSE @],
   walker |-> walker, exc |-> "none", alias |-> eventIndex]

\* The end of readyWalker: the walker is cached if the replay was long enough.
CacheIfFar(v, eventIndex, searchIx, walker) ==
  [v |-> IF eventIndex - searchIx >= v.walkerCacheGap
         THEN [CachePut(v, eventIndex, walker) EXCEPT
                 !.walkerCacheMax = IF eventIndex > @ THEN eventIndex ELSE @]
         ELSE v,
   walker |-> walker, exc |-> "none",
   alias |-> IF eventIndex - searchIx >= v.walkerCacheGap THEN eventIndex ELSE Undef]

\* A faulty ReplayFrom: the walker is cached before the replay loop ran.
ReplayFromCachingBase(v, eventIndex, found) ==
  [v |-> CacheIfFar(v, eventIndex, IF found >= 0 THEN found ELSE 0,
                    IF found >= 0 THEN CacheGet(v, found) ELSE NewWalker).v,
   walker |-> Replay(IF found >= 0 THEN CacheGet(v, found) ELSE NewWalker,
                     v.validationEvents, IF found >= 0 THEN found ELSE 0, eventIndex),
   exc |-> "none", alias |-> Undef]

\* A faulty ReplayFrom: the replay from a cached walker starts one event late.
ReplayFromNext(v, eventIndex, found) ==
  IF found >= 0
  THEN CacheIfFar(v, eventIndex, found,
                  Replay(Clone(CacheGet(v, found)), v.validationEvents, found + 1,
                         eventIndex))
  ELSE CacheIfFar(v, eventIndex, 0,
                  Replay(NewWalker, v.validationEvents, 0, eventIndex))

\* readyWalker past the direct hit: found is the cached index to start from.
ReplayFrom(v, eventIndex, found) ==
  IF found >= 0
  THEN CacheIfFar(v, eventIndex, found,
                  Replay(Clone(CacheGet(v, found)), v.validationEvents, found,
                         eventIndex))
  ELSE CacheIfFar(v, eventIndex, 0,
                  Replay(NewWalker, v.validationEvents, 0, eventIndex))

\* readyWalker(eventIndex).
ReadyWalker(v, eventIndex) ==
  IF eventIndex = Undef
  THEN [v |-> v, walker |-> NewWalker, exc |-> "EventIndexException",
        alias |-> Undef]
  ELSE IF CacheHas(v, eventIndex)
  THEN [v |-> v, walker |-> CacheGet(v, eventIndex), exc |-> "none",
        alias |-> eventIndex]
  ELSE IF eventIndex > Len(v.validationEvents)
  THEN [v |-> v, walker |-> NewWalker, exc |-> "fireEvent(undefined)",
        alias |-> Undef]
  ELSE ReplayFrom(v, eventIndex, SearchIx(v, eventIndex))

\* An event was fired on the walker of r: whatever else holds that object
\* sees it changed.
WriteThrough(r) ==
  IF r.alias >= 0 THEN [r EXCEPT !.v = CachePut(@, r.alias, r.walker)]
  ELSE IF r.alias = LiveAlias THEN [r EXCEPT !.v.validationWalker = r.walker]
  ELSE r

\* fireTextEvent(textNode) of _getWalkerAt, on the walker of r.
FireTextEvent(r, textNode) ==
  WriteThrough([r EXCEPT !.walker =
                  FireEvent(@, Ev("text", Dom[textNode].data, "")).w])

\* What _getWalkerAt leaves when a call it makes throws.
Thrown(r) == [v |-> r.v, walker |-> NewWalker, exc |-> r.exc, alias |-> Undef]

\* What _getWalkerAt returns after _fireAttributeNameEvent on its clone.
Fired(f) == [v |-> f.v, walker |-> f.walker, exc |-> "none", alias |-> Undef]

\* _getWalkerAt, container an attribute: r is the result of readyWalker.
AttributeWalker(r, container) ==
  IF r.exc # "none" THEN Thrown(r)
  ELSE IF StartsWithXmlns(Dom[container].name) THEN r
  ELSE Fired(FireAttributeNameEvent(r.v, Clone(r.walker), Dom[container].owner,
                                    container))

\* A faulty TextWalker: the text event is fired on the walker readyWalker
\* returned, not on a clone of it.
TextWalkerShared(r, container, index) ==
  IF r.exc # "none" THEN Thrown(r)
  ELSE IF index > 0 THEN FireTextEvent(r, container)
  ELSE r

\* _getWalkerAt, container a text node: r is the result of readyWalker.
TextWalker(r, container, index) ==
  IF r.exc # "none" THEN Thrown(r)
  ELSE IF index > 0 THEN FireTextEvent(Cloned(r), container)
  ELSE r

\* _getWalkerAt, container an element or document: r is the result of
\* readyWalker.
ElementWalker(r, container, index, attributes) ==
  IF r.exc # "none" THEN Thrown(r)
  ELSE IF /\ ~attributes
          /\ PrevSibling(container, index) # Null
          /\ PrevSibling(container, index) # Prev(container, index)
          /\ Kind(PrevSibling(container, index)) = "text"
       THEN FireTextEvent(Cloned(r), PrevSibling(container, index))
       ELSE r

\* _getWalkerAt after _validateUpTo, whose result is u.
WalkerAfter(u, container, index, attributes) ==
  IF u.exc # "none" THEN Thrown(u)
  ELSE IF container = u.v.root /\ index <= 0 /\ ~attributes
  THEN [v |-> u.v,
        walker |-> IF index = 0 THEN NewWalker ELSE u.v.validationWalker,
        exc |-> "none",
        alias |-> IF index = 0 THEN Undef ELSE LiveAlias]
  ELSE IF IsAttr(container)
  THEN AttributeWalker(
         ReadyWalker(u.v, GetNodeProperty(u.v, Dom[container].owner,
                                          "EventIndexBeforeAttributes")),
         container)
  ELSE CASE Kind(container) = "text" ->
              TextWalker(
                ReadyWalker(
                  u.v,
                  IF PreviousElementSibling(container) # Null
                  THEN GetNodeProperty(u.v, PreviousElementSibling(container),
                                       "EventIndexAfter")
                  ELSE GetNodeProperty(u.v, ParentNode(container),
                                       "EventIndexAfterStart")),
                container, index)
         [] Kind(container) \in {"element", "document"} ->
              ElementWalker(
                ReadyWalker(
                  u.v,
                  IF ~attributes
                  THEN IF Prev(container, index) # Null
                       THEN GetNodeProperty(u.v, Prev(container, index),
                                            "EventIndexAfter")
                       ELSE GetNodeProperty(u.v, container, "EventIndexAfterStart")
                  ELSE GetNodeProperty(u.v, ChildAt(container, index),
                                       "EventIndexAfterAttributes")),
                container, index, attributes)
         [] OTHER -> [v |-> u.v, walker |-> NewWalker, exc |-> "unexpected node type",
                      alias |-> Undef]

\* _getWalkerAt(container, index, attributes).
GetWalkerAt(v, container, index, attributes) ==
  IF BadAttributesRequest(container, index, attributes)
  THEN [v |-> v, walker |-> NewWalker, exc |-> "not an element node",
        alias |-> Undef]
  ELSE WalkerAfter(ValidateUpTo(v, container, index, attributes),
                   container, index, attributes)

\* walker.possible() on the walker _getWalkerAt returned (r).
PossibleOf(r) ==
  [v |-> r.v, ret |-> IF r.exc = "none" THEN Possible(r.walker) ELSE {},
   exc |-> r.exc]

\* possibleAt(container, index, attributes).
PossibleAt(v, container, index, attributes) ==
  PossibleOf(GetWalkerAt(v, container, index, attributes))

\* possible.has(event), or one of the possible events of the same kind has a
\* name pattern that matches the names of the event.
EventPossible(possible, event) ==
  \E p \in possible : p.kind = event.kind /\ PatternMatch(p, event.a, event.b)

\* possibleWhere(container, event), from `index` on: the validator after the
\* possibleAt calls, and the indices where the event is possible.
RECURSIVE PossibleWhere(_, _, _, _)
RECURSIVE NextPossibleWhere(_, _, _, _)
PossibleWhere(v, container, event, index) ==
  IF index > Len(ChildNodes(container)) THEN [v |-> v, ret |-> {}, exc |-> "none"]
  ELSE NextPossibleWhere(PossibleAt(v, container, index, FALSE), container, event,
                         index)
NextPossibleWhere(p, container, event, index) ==
  IF p.exc # "none" THEN [v |-> p.v, ret |-> {}, exc |-> p.exc]
  ELSE [PossibleWhere(p.v, container, event, index + 1) EXCEPT
          !.ret = IF EventPossible(p.ret, event) THEN @ \cup {index} ELSE @]

\* The end of getErrorsFor: the errors recorded for the node.
ErrorsOf(u, node) ==
  [v |-> u.v,
   ret |-> IF u.exc = "none" THEN SelectSeq(u.v.errors, LAMBDA e : e.node = node)
           ELSE <<>>,
   exc |-> u.exc]

\* getErrorsFor(node).
GetErrorsFor(v, node) ==
  IF ParentNode(node) = Null
  THEN [v |-> v, ret |-> <<>>, exc |-> "node without a parent!"]
  ELSE ErrorsOf(ValidateUpTo(v, ParentNode(node),
                             IndexOf(ParentNode(node), node) + 1, FALSE),
                node)

\* The expando properties with those of the nodes of `wrapper` undefined: the
\* wrapper and the clone in it are new nodes, and are dropped after the call.
Fresh(props, wrapper) ==
  [n \in Nodes |-> IF n \in Descendants(wrapper) THEN NoProps ELSE props[n]]

\* A faulty Speculated: dup reports its errors on the validator's own list.
SpeculatedShared(r, d, wrapper) ==
  [v |-> [r.v EXCEPT !.props = Fresh(d.v.props, wrapper),
                     !.errors = @ \o d.v.errors],
   ret |-> d.v.errors, exc |-> d.exc]

\* The end of speculativelyValidateFragment: r is the result of _getWalkerAt
\* on the validator, d that of _validateUpTo on dup.
Speculated(r, d, wrapper) ==
  [v |-> [r.v EXCEPT !.props = Fresh(d.v.props, wrapper)],
   ret |-> d.v.errors, exc |-> d.exc]

\* A faulty Dup: the private validator is run to the end of its document.
DupToEnd(r, wrapper) ==
  ValidateUpTo([NewValidator(wrapper, DefaultWalkerCacheGap, r.v.props)
                  EXCEPT !.validationWalker = Clone(r.walker)],
               wrapper, -1, FALSE)

\* dup of speculativelyValidateFragment: a new Validator on the wrapper with
\* a clone of the walker _getWalkerAt returned (r), after its
\* _validateUpTo(toParse, toParse.childNodes.length).  dup writes its
\* properties on the nodes under the same prefix.
Dup(r, wrapper) ==
  ValidateUpTo([NewValidator(wrapper, DefaultWalkerCacheGap, r.v.props)
                  EXCEPT !.validationWalker = Clone(r.walker)],
               wrapper, Len(ChildNodes(wrapper)), FALSE)

\* speculativelyValidateFragment past _getWalkerAt.
Speculate(r, wrapper) ==
  IF r.exc # "none" THEN [v |-> r.v, ret |-> <<>>, exc |-> r.exc]
  ELSE Speculated(r, Dup(r, wrapper), wrapper)

\* speculativelyValidate(container, index, toParse) with
\* speculativelyValidateFragment: `wrapper` is the div built around the clone
\* of toParse.
SpeculativelyValidate(v, container, index, wrapper) ==
  Speculate(GetWalkerAt([v EXCEPT !.props = Fresh(@, wrapper)], container, index,
                        FALSE),
            wrapper)

\* ------------------------------------------------------------ the state machine

\* live: the validator.  outcome: how the last call on it ended: "none" (it
\* returned), the error it threw, or "hang" (it never returns).
VARIABLES live, outcome
vars == <<live, outcome>>

\* Bounds of the model: the steps one tick may run, the events and errors
\* that calls other than traversal steps may add to the lists, and the
\* progress frames a reset may leave on the stack (_resetTo keeps the stack).
MaxBurst == 2
MaxExtraEvents == 1
MaxErrors == 6
MaxStack == 3

\* The walkerCacheGap option of the validators checked: small enough that
\* readyWalker hits, replays without caching and replays with caching.
Gaps == {2}

\* The nodes of the tree under `root`, attributes included.
TreeNodes(root) ==
  Descendants(root)
  \cup UNION {{Attributes(n)[i] : i \in 1..Len(Attributes(n))} : n \in Descendants(root)}

\* Every location (container, index) of a tree: each position in an element
\* or the document (and the root's -1), before and inside a text node, and
\* each attribute.
Locations(root) ==
  UNION {CASE Kind(c) \in {"element", "document"} ->
                {<<c, i>> : i \in (IF c = root THEN -1 ELSE 0)..Len(ChildNodes(c))}
           [] Kind(c) = "text" -> {<<c, 0>>, <<c, 1>>}
           [] Kind(c) = "attribute" -> {<<c, 0>>}
           [] OTHER -> {} : c \in TreeNodes(root)}

\* The queries (container, index, attributes) the host makes between steps.
QueryPoints(root) ==
  CASE root = 1 -> {<<1, -1, FALSE>>, <<2, 1, FALSE>>, <<3, 0, FALSE>>,
                    <<2, 1, TRUE>>}
    [] root = 6 -> {<<8, 1, FALSE>>, <<14, 1, FALSE>>, <<13, 0, FALSE>>,
                    <<6, 1, FALSE>>}
    [] root = 17 -> {<<17, 0, FALSE>>, <<18, 1, FALSE>>, <<18, 0, TRUE>>,
                     <<25, 0, FALSE>>}
    [] root = 29 -> {<<29, -1, FALSE>>, <<30, 1, FALSE>>, <<30, 1, TRUE>>}
    [] OTHER -> {<<34, 3, FALSE>>, <<34, 2, FALSE>>}

\* Events on the list that were not fired on the live walker.
ExtraEvents(v) ==
  Len(v.validationEvents)
  - Len(SelectSeq(v.validationWalker.hist, LAMBDA e : e.kind # "text"))

Running == outcome # "hang"

Init ==
  /\ \E root \in Roots, gap \in Gaps :
       live = NewValidator(root, gap, [n \in Nodes |-> NoProps])
  /\ outcome = "none"

\* The state after a call with result r.
Returns(r) ==
  /\ live' = r.v
  /\ outcome' = r.exc

DoStart ==
  /\ Running
  /\ Len(live.errors) < MaxErrors
  /\ live' = Start(live)
  /\ outcome' = "none"

DoStop ==
  /\ Running
  /\ live' = Stop(live, "undefined")
  /\ outcome' = "none"

DoRestartAt ==
  /\ Running
  /\ Len(live.validationStack) < MaxStack
  /\ \E node \in {live.root, LastElementChild(live.root)} :
       live' = RestartAt(live, node)
  /\ outcome' = "none"

\* A pending timer fires; the tick runs `steps` steps before its time is up.
Tick ==
  /\ Running
  /\ \E id \in live.timers, steps \in 0..MaxBurst :
       live' = WorkWrapper(live, id, steps)
  /\ outcome' = "none"

\* What a tick with a listener leaves: the listener is gone, and the outcome
\* is what the listener heard.
Heard(v) ==
  /\ live' = [v EXCEPT !.listening = FALSE, !.heard = "none"]
  /\ outcome' = v.heard

\* A tick during which a listener of "error" queries the validator.
TickListened ==
  /\ Running
  /\ \E id \in live.timers, steps \in 1..MaxBurst :
       Heard(WorkWrapper([live EXCEPT !.listening = TRUE], id, steps))

DoPossibleAt ==
  /\ Running
  /\ ExtraEvents(live) < MaxExtraEvents
  /\ Len(live.errors) < MaxErrors
  /\ \E q \in QueryPoints(live.root) :
       Returns(PossibleAt(live, q[1], q[2], q[3]))

DoGetErrorsFor ==
  /\ Running
  /\ \E node \in Descendants(live.root) :
       Returns(GetErrorsFor(live, node))

DoSpeculativelyValidate ==
  /\ Running
  /\ ExtraEvents(live) < MaxExtraEvents
  /\ Len(live.errors) < MaxErrors
  /\ \E q \in QueryPoints(live.root), wrapper \in Wrappers :
       /\ ~q[3]
       /\ Returns(SpeculativelyValidate(live, q[1], q[2], wrapper))

Next ==
  \/ DoStart
  \/ DoStop
  \/ DoRestartAt
  \/ Tick
  \/ TickListened
  \/ DoPossibleAt
  \/ DoGetErrorsFor
  \/ DoSpeculativelyValidate

Spec == Init /\ [][Next]_vars

\* --------------------------------------------------- the scheduler's liveness

\* The validator after start(), on any of the trees.
LiveInit ==
  /\ \E root \in Roots, gap \in Gaps :
       live = Start(NewValidator(root, gap, [n \in Nodes |-> NoProps]))
  /\ outcome = "none"

\* start() called again while the pass is under way.
StartAgain ==
  /\ live.workingState \notin {"VALID", "INVALID"}
  /\ DoStart

\* A pending timer fires and the tick runs at least one step: _work reads the
\* clock before each step, and no time has passed before the first.
TickWorks ==
  /\ Running
  /\ \E id \in live.timers, steps \in 1..MaxBurst :
       live' = WorkWrapper(live, id, steps)
  /\ outcome' = "none"

\* Neither stop() nor restartAt() is called.
LiveNext ==
  \/ StartAgain
  \/ Tick
  \/ DoPossibleAt
  \/ DoGetErrorsFor
  \/ DoSpeculativelyValidate

\* A timer is pending: TickWorks is enabled (a step changes the state).
TickPending == Running /\ live.timers # {}

\* Pending timers eventually fire: weak fairness of TickWorks, WF_vars(TickWorks),
\* with ENABLED <<TickWorks>>_vars written as the state predicate it equals.
TimersFire == []<>(~TickPending) \/ []<><<TickWorks>>_vars

LiveSpec == LiveInit /\ [][LiveNext]_vars /\ TimersFire

\* ------------------------------------------------------- the progress of a pass

\* The tree whose portions are rounded and the tree with an unexpected node,
\* and the frames a pass may find on the stack (a restart keeps the frames
\* of the pass before).  A listener
\* of "reset-errors" is registered on the new validator.
ProgressRoots == {39, 47}
MaxFrames == 5

ProgressInit ==
  /\ \E root \in ProgressRoots :
       live = OnResetErrors(NewValidator(root, DefaultWalkerCacheGap,
                                         [n \in Nodes |-> NoProps]))
  /\ outcome = "none"

\* start(), while the pass is not finished.
ProgressStart ==
  /\ GetNodeProperty(live, live.root, "EventIndexAfter") = Undef
  /\ live' = Start(live)
  /\ outcome' = "none"

\* A pending timer fires and the tick runs one step.
ProgressTick ==
  /\ \E id \in live.timers : live' = WorkWrapper(live, id, 1)
  /\ outcome' = "none"

\* restartAt(root), as long as the frames left on the stack and the
\* notifications received are few.
ProgressRestart ==
  /\ Len(live.validationStack) < MaxFrames
  /\ live.resetErrors < MaxFrames
  /\ live' = RestartAt(live, live.root)
  /\ outcome' = "none"

ProgressNext == ProgressStart \/ ProgressTick \/ ProgressRestart

ProgressSpec == ProgressInit /\ [][ProgressNext]_vars

\* ------------------------------------------ calls from a notification handler

\* What a tick with a listener of "state-update" leaves: the listener is
\* gone, and the outcome is the call it made, if it made one.
Handled(v) ==
  /\ live' = [v EXCEPT !.handler = "none"]
  /\ outcome' = v.handler

\* A tick of one step, during which a listener of "state-update" calls stop()
\* or restartAt(root) when it is notified.
TickHandled ==
  /\ Len(live.validationStack) <= MaxStack
  /\ \E id \in live.timers, call \in {"stop", "restartAt"} :
       Handled(WorkWrapper(OnStateUpdate(live, call), id, 1))

HandlerNext == DoStart \/ DoStop \/ DoRestartAt \/ Tick \/ TickHandled

HandlerSpec == Init /\ [][HandlerNext]_vars

\* ------------------------------------------------------------------ properties

\* The steps of the longest pass over a tree of the forest, plus one.
RunSteps == 8

Terminal(v) == v.workingState \in {"VALID", "INVALID"}

\* The current pass has finalized the root: EventIndexAfter of the root is
\* set by the root's END_TAG stage only, and every reset erases it.
PassCompleted(v) == GetNodeProperty(v, v.root, "EventIndexAfter") # Undef

Range(seq) == {seq[i] : i \in 1..Len(seq)}

IsPrefixOf(a, b) == Len(a) <= Len(b) /\ SubSeq(b, 1, Len(a)) = a

\* Every query (container, index, attributes) on a tree.
AllQueries(root) ==
  {<<l[1], l[2], FALSE>> : l \in Locations(root)}
  \cup {<<l[1], l[2], TRUE>> :
          l \in {m \in Locations(root) :
                   /\ Kind(m[1]) \in {"element", "document"}
                   /\ IsElement(ChildAt(m[1], m[2]))}}

\* C1: whenever the working state is VALID or INVALID, the current pass
\* (since the last reset) has traversed the whole document and finalized the
\* automaton.
C1_TerminalOnlyAfterCompletePass == Terminal(live) => PassCompleted(live)

C3_EventuallyTerminal == <>[](Terminal(live) /\ live.timers = {})

\* A finished pass, reached with the scheduler halted.
C3_Witness ==
  /\ Terminal(live) /\ PassCompleted(live)
  /\ live.timers = {} /\ live.timeoutId = Undef
  /\ live.partDone = PartUnit

\* The bindings in scope in an element: those of its namespace declarations
\* over those of its ancestors.
Declared(el) ==
  {<<IF Dom[Attributes(el)[i]].name.prefix = "" THEN ""
      ELSE Dom[Attributes(el)[i]].name.local,
     Dom[Attributes(el)[i]].data>> :
     i \in {j \in 1..Len(Attributes(el)) : StartsWithXmlns(Dom[Attributes(el)[j]].name)}}
Scope(outer, el) ==
  Declared(el) \cup {b \in outer : \A d \in Declared(el) : d[1] # b[1]}
Bound(scope, p) == \E b \in scope : b[1] = p
UriOf(scope, p) == IF Bound(scope, p) THEN (CHOOSE b \in scope : b[1] = p)[2] ELSE ""

\* The events of the attributes of el from number i on.
RECURSIVE AttributeEventsOf(_, _, _)
AttributeEventsOf(el, scope, i) ==
  IF i > Len(Attributes(el)) THEN <<>>
  ELSE LET nm == Dom[Attributes(el)[i]].name
           val == Dom[Attributes(el)[i]].data
       IN (CASE StartsWithXmlns(nm) -> <<>>
             [] ~StartsWithXmlns(nm) /\ nm.prefix = "" ->
                  << Ev("attributeName", "", nm.local), Ev("attributeValue", val, "") >>
             [] ~StartsWithXmlns(nm) /\ nm.prefix # "" /\ Bound(scope, nm.prefix) ->
                  << Ev("attributeName", UriOf(scope, nm.prefix), nm.local),
                     Ev("attributeValue", val, "") >>
             [] OTHER -> <<>>)
          \o AttributeEventsOf(el, scope, i + 1)

RECURSIVE PrefixEventsOf(_, _)
PrefixEventsOf(el, i) ==
  IF i > Len(Attributes(el)) THEN <<>>
  ELSE LET nm == Dom[Attributes(el)[i]].name
       IN (IF StartsWithXmlns(nm)
           THEN << Ev("definePrefix", IF nm.prefix = "" THEN "" ELSE nm.local,
                      Dom[Attributes(el)[i]].data) >>
           ELSE <<>>)
          \o PrefixEventsOf(el, i + 1)

\* The events of a whole document in document order: for each element
\* enterContext, its definePrefix events, enterStartTag, its attribute pairs,
\* leaveStartTag, its contents (each run of text one text event), endTag and
\* leaveContext.
RECURSIVE ElementEventsOf(_, _)
RECURSIVE ContentEventsOf(_, _, _, _)
ElementEventsOf(el, outer) ==
  LET scope == Scope(outer, el)
      nm == Dom[el].name
      ns == IF nm.prefix = "" THEN UriOf(scope, "")
            ELSE IF Bound(scope, nm.prefix) THEN UriOf(scope, nm.prefix) ELSE ""
      name == IF nm.prefix = "" \/ Bound(scope, nm.prefix) THEN nm.local ELSE QStr(nm)
  IN << ENTER_CONTEXT_EVENT >> \o PrefixEventsOf(el, 1)
     \o << Ev("enterStartTag", ns, name) >>
     \o AttributeEventsOf(el, scope, 1)
     \o << LEAVE_START_TAG_EVENT >>
     \o ContentEventsOf(el, scope, 1, "")
     \o << Ev("endTag", ns, name), LEAVE_CONTEXT_EVENT >>
ContentEventsOf(parent, scope, i, text) ==
  LET flush == IF text = "" THEN <<>> ELSE << Ev("text", text, "") >>
  IN IF i > Len(ChildNodes(parent)) THEN flush
     ELSE LET child == ChildNodes(parent)[i]
          IN CASE Kind(child) = "text" ->
                    ContentEventsOf(parent, scope, i + 1, text \o Dom[child].data)
               [] Kind(child) = "element" ->
                    flush \o ElementEventsOf(child, scope)
                    \o ContentEventsOf(parent, scope, i + 1, "")
               [] OTHER -> ContentEventsOf(parent, scope, i + 1, text)

DocumentEvents(root) == ContentEventsOf(root, {}, 1, "")

\* C4: the events fired on the live automaton are, at every moment, the
\* first events of the document's sequence in document order, however the
\* steps are split into ticks or mixed with forced catch-up.
C4_EventsInDocumentOrder ==
  IsPrefixOf(live.validationWalker.hist, DocumentEvents(live.root))

\* The whole second tree fired, in a run with queries that cached walkers.
C4_Witness ==
  /\ live.root = 6
  /\ live.validationWalker.hist = DocumentEvents(6)
  /\ live.walkerCache # {}

\* The location (container, index) has been reached: _validateUpTo has
\* nothing to run for it.
Reached(v, container, index) ==
  LET t == Target(v, container, index, FALSE)
  IN t.exc = "none" /\ (t.skip \/ GetNodeProperty(v, t.toInspect, t.dataKey) # Undef)

\* Speculative validation left the error list, the event list and the
\* properties of the nodes as they are in the live validator.
Untouched(r) ==
  /\ r.v.errors = live.errors
  /\ r.v.validationEvents = live.validationEvents
  /\ r.v.props = live.props

C6_SpeculationKeepsCache ==
  \A l \in Locations(live.root), wrapper \in Wrappers :
    LET r == SpeculativelyValidate(live, l[1], l[2], wrapper)
    IN /\ r.v.walkerCache = live.walkerCache
       /\ r.v.walkerCacheMax = live.walkerCacheMax

\* C6 amended: speculative validation removes or replaces no entry of the
\* walker cache and never lowers the cached maximum index; it may add
\* entries.
C6_SpeculationOnlyAddsToCache ==
  \A l \in Locations(live.root), wrapper \in Wrappers :
    LET r == SpeculativelyValidate(live, l[1], l[2], wrapper)
    IN /\ live.walkerCache \subseteq r.v.walkerCache
       /\ r.v.walkerCacheMax >= live.walkerCacheMax
       /\ \A c \in r.v.walkerCache : c.ix <= r.v.walkerCacheMax

\* A call on a validator with a cached walker that adds another.
C6_Witness ==
  \E l \in Locations(live.root), wrapper \in Wrappers :
    LET r == SpeculativelyValidate(live, l[1], l[2], wrapper)
    IN /\ r.exc = "none"
       /\ live.walkerCache # {}
       /\ live.walkerCache \subseteq r.v.walkerCache
       /\ r.v.walkerCache # live.walkerCache

\* C7: two possibleAt calls in a row at the same location return equal
\* event sets, and the second changes no node property.
C7_PossibleAtIdempotent ==
  \A q \in AllQueries(live.root) :
    LET r1 == PossibleAt(live, q[1], q[2], q[3])
        r2 == PossibleAt(r1.v, q[1], q[2], q[3])
    IN r1.exc = "none" =>
         /\ r2.exc = "none"
         /\ r2.ret = r1.ret
         /\ r2.v.props = r1.v.props

\* A location whose first query ran validation forward, cached a walker and
\* set properties, and whose second query answers the same from the cache.
C7_Witness ==
  \E q \in AllQueries(live.root) :
    LET r1 == PossibleAt(live, q[1], q[2], q[3])
        r2 == PossibleAt(r1.v, q[1], q[2], q[3])
    IN /\ r1.exc = "none" /\ r2.exc = "none"
       /\ r1.v.props # live.props
       /\ r1.v.walkerCache # live.walkerCache
       /\ r1.ret # {}
       /\ r2.ret = r1.ret
       /\ r2.v.props = r1.v.props

\* A tick that has all the time it needs (maxTimespan 0).
RunToCompletion(v) == WorkWrapper(v, v.timeoutId, RunSteps)

\* A newly constructed validator on the tree, started and run to completion.
FreshRun(root, gap) ==
  RunToCompletion(Start(NewValidator(root, gap, [n \in Nodes |-> NoProps])))

\* C8: restartAt(root) in any state, followed by a run to completion, yields
\* the error list of a new validator run to completion on the same tree.
C8_RestartEquivalence ==
  Running =>
    LET r == RunToCompletion(RestartAt(live, live.root))
    IN /\ PassCompleted(r)
       /\ r.errors = FreshRun(live.root, live.walkerCacheGap).errors

\* A pass completed after a restart (only a reset erases the root's
\* EventIndexAfterStart), with the errors of a first run, on a tree that has
\* errors.
C8_Witness ==
  /\ GetNodeProperty(live, live.root, "EventIndexAfterStart") = Undef
  /\ PassCompleted(live)
  /\ Len(live.validationStack) > 2
  /\ live.errors # <<>>
  /\ live.errors = FreshRun(live.root, live.walkerCacheGap).errors

\* The validator as one with the default walkerCacheGap has it: nothing
\* cached.
Uncached(v) ==
  [v EXCEPT !.walkerCache = {}, !.walkerCacheMax = -1,
            !.walkerCacheGap = DefaultWalkerCacheGap]

\* C9: a possibleAt query answers the same and leaves the same validator,
\* cache apart, with a small walkerCacheGap and a filled cache as with the
\* default gap and nothing cached; so do the runs to completion that follow:
\* same error list, same working state.
C9_CacheGapInvariance ==
  \A q \in AllQueries(live.root) :
    LET r1 == PossibleAt(live, q[1], q[2], q[3])
        r2 == PossibleAt(Uncached(live), q[1], q[2], q[3])
        f1 == RunToCompletion(Start(r1.v))
        f2 == RunToCompletion(Start(r2.v))
    IN /\ r1.exc = r2.exc
       /\ r1.ret = r2.ret
       /\ Uncached(r1.v) = Uncached(r2.v)
       /\ r1.exc = "none" =>
            /\ f1.errors = f2.errors
            /\ f1.workingState = f2.workingState
            /\ Terminal(f1)

\* A query in mid-pass that replays from a cached walker and caches another,
\* with errors on the list.
C9_Witness ==
  \E q \in AllQueries(live.root) :
    LET r1 == PossibleAt(live, q[1], q[2], q[3])
        r2 == PossibleAt(Uncached(live), q[1], q[2], q[3])
    IN /\ r1.exc = "none"
       /\ ~PassCompleted(live)
       /\ live.walkerCache # {}
       /\ r1.v.walkerCache # live.walkerCache
       /\ r2.v.walkerCache = {}
       /\ r1.ret = r2.ret /\ r1.ret # {}
       /\ r1.v.errors # <<>>

\* The errors the automaton reported for an enterStartTag event.
RejectedStartTags(v) ==
  {e \in Range(v.errors) : e.error.msg = "rejected" /\ e.error.ev.kind = "enterStartTag"}

\* The error is recorded at the parent of an element and the index of that
\* element among the parent's child nodes, and the event is the element's: it
\* carries the local name, or the tag name when the name does not resolve.
AtContainer(e) ==
  /\ Kind(e.node) \in {"element", "document"}
  /\ IsElement(ChildAt(e.node, e.index))
  /\ ParentNode(ChildAt(e.node, e.index)) = e.node
  /\ e.error.ev.b \in {Dom[ChildAt(e.node, e.index)].name.local,
                       QStr(Dom[ChildAt(e.node, e.index)].name)}

\* C10 as stated: a rejected enterStartTag is recorded at the element's
\* parent and position, getErrorsFor(parent) returns it and
\* getErrorsFor(element) does not.
C10_RejectionAtContainer ==
  Running =>
    \A e \in RejectedStartTags(live) :
      /\ AtContainer(e)
      /\ GetErrorsFor(live, e.node).exc = "none"
      /\ e \in Range(GetErrorsFor(live, e.node).ret)
      /\ e \notin Range(GetErrorsFor(live, ChildAt(e.node, e.index)).ret)

\* C10 amended: a rejected enterStartTag is recorded at the element's parent
\* and position; getErrorsFor(element) does not return it, and
\* getErrorsFor(parent) returns it when the parent has a parent itself, and
\* throws when it has none (the root).
C10_RejectionAtParentedContainer ==
  Running =>
    \A e \in RejectedStartTags(live) :
      /\ AtContainer(e)
      /\ GetErrorsFor(live, ChildAt(e.node, e.index)).exc = "none"
      /\ e \notin Range(GetErrorsFor(live, ChildAt(e.node, e.index)).ret)
      /\ IF ParentNode(e.node) # Null
         THEN /\ GetErrorsFor(live, e.node).exc = "none"
              /\ e \in Range(GetErrorsFor(live, e.node).ret)
         ELSE GetErrorsFor(live, e.node).exc = "node without a parent!"

\* An element rejected inside an element: the error is among those of the
\* parent and not among those of the rejected element.
C10_Witness ==
  \E e \in RejectedStartTags(live) :
    /\ AtContainer(e)
    /\ ParentNode(e.node) # Null
    /\ e \in Range(GetErrorsFor(live, e.node).ret)
    /\ e \notin Range(GetErrorsFor(live, ChildAt(e.node, e.index)).ret)

\* The errors produced for attributes: a name that does not resolve, a
\* rejected attributeName event, a rejected attributeValue event.
AttributeErrors(v) ==
  {e \in Range(v.errors) : e.error.ev.kind \in {"attributeName", "attributeValue"}}

\* C11 as stated: every error produced for an attribute is recorded with an
\* element, the owner of the attribute, as its node, and getErrorsFor(that
\* element) returns it.
C11_AttributeErrorsAtOwner ==
  Running =>
    \A e \in AttributeErrors(live) :
      /\ IsElement(e.node)
      /\ e \in Range(GetErrorsFor(live, e.node).ret)

\* C11, what the code does: every error produced for an attribute is
\* recorded with the attribute node as its node, at index 0; getErrorsFor of
\* the owning element does not return it, and getErrorsFor of the attribute
\* throws, an attribute having no parent node.
C11_AttributeErrorsAtAttribute ==
  Running =>
    \A e \in AttributeErrors(live) :
      /\ IsAttr(e.node) /\ e.index = 0
      /\ GetErrorsFor(live, Dom[e.node].owner).exc = "none"
      /\ e \notin Range(GetErrorsFor(live, Dom[e.node].owner).ret)
      /\ GetErrorsFor(live, e.node).exc = "node without a parent!"

\* A rejected attributeName and a rejected attributeValue of the same element
\* on the error list, neither among the errors of that element.
C11_Witness ==
  \E e1, e2 \in AttributeErrors(live) :
    /\ e1.error.msg = "rejected" /\ e1.error.ev.kind = "attributeName"
    /\ e2.error.msg = "rejected" /\ e2.error.ev.kind = "attributeValue"
    /\ Dom[e1.node].owner = Dom[e2.node].owner
    /\ GetErrorsFor(live, Dom[e1.node].owner).exc = "none"
    /\ e1 \notin Range(GetErrorsFor(live, Dom[e1.node].owner).ret)
    /\ e2 \notin Range(GetErrorsFor(live, Dom[e1.node].owner).ret)

C13_ResetClearsAnnotations ==
  Running =>
    \A n \in TreeNodes(live.root) :
      RestartAt(live, live.root).props[n] = NoProps

\* C13, what the code does: after restartAt the root and the elements below
\* it carry no property, and every attribute node carries what it carried
\* before.
C13_ResetClearsElements ==
  Running =>
    \A n \in TreeNodes(live.root) :
      RestartAt(live, live.root).props[n] = IF IsAttr(n) THEN live.props[n] ELSE NoProps

\* After a restart, with nothing validated yet, an attribute still carries
\* the wildcard flag of the pass before.
C13_Witness ==
  /\ live.restarting
  /\ live.validationEvents = <<>>
  /\ \E n \in TreeNodes(live.root) :
       IsAttr(n) /\ GetNodeProperty(live, n, "PossibleDueToWildcard") # Undef
  /\ \A n \in Descendants(live.root) : live.props[n] = NoProps

C15_ReentryThrows ==
  /\ live.cycleEntered = 0
  /\ outcome # StepDisturbed
  /\ LET m == [live EXCEPT !.cycleEntered = 1]
     IN /\ Cycle(m).exc = "_cycle is being reentered"
        /\ InFlight(Cycle(m).v) = InFlight(m)

\* A tick during which a listener of a published error queried an unreached
\* location: the query threw the internal error, and the tick went on.
C15_Witness ==
  /\ outcome = "_cycle is being reentered"
  /\ live.errors # <<>>
  /\ live.cycleEntered = 0

\* C16 as stated: possibleAt at a location the validation has passed, in any
\* kind of container, leaves the event list, the error list and the live
\* walker as they were.
C16_PossibleAtReadOnly ==
  \A l \in Locations(live.root) :
    Reached(live, l[1], l[2]) =>
      LET r == PossibleAt(live, l[1], l[2], FALSE)
      IN /\ r.v.validationEvents = live.validationEvents
         /\ r.v.errors = live.errors
         /\ r.v.validationWalker = live.validationWalker

\* C16, what the code does: in an element, document or text container, and
\* in a namespace declaration, possibleAt at a location the validation has
\* passed leaves the three as they were; in any other attribute it appends
\* an attributeName event to the event list or an error to the error list.
C16_ReadOnlyOutsideAttributes ==
  \A l \in Locations(live.root) :
    Reached(live, l[1], l[2]) =>
      LET r == PossibleAt(live, l[1], l[2], FALSE)
      IN /\ r.v.validationWalker = live.validationWalker
         /\ IF IsAttr(l[1]) /\ ~StartsWithXmlns(Dom[l[1]].name)
            THEN \/ /\ Len(r.v.validationEvents) = Len(live.validationEvents) + 1
                    /\ r.v.validationEvents[Len(r.v.validationEvents)].kind
                         = "attributeName"
                 \/ /\ r.v.validationEvents = live.validationEvents
                    /\ Len(r.v.errors) = Len(live.errors) + 1
            ELSE /\ r.v.validationEvents = live.validationEvents
                 /\ r.v.errors = live.errors

\* A finished pass in which possibleAt in an attribute adds both an event and
\* an error.
C16_Witness ==
  /\ PassCompleted(live)
  /\ \E l \in Locations(live.root) :
       LET r == PossibleAt(live, l[1], l[2], FALSE)
       IN /\ IsAttr(l[1]) /\ Reached(live, l[1], l[2])
          /\ Len(r.v.validationEvents) = Len(live.validationEvents) + 1
          /\ Len(r.v.errors) = Len(live.errors) + 1

\* The properties that hold an index into the event list.
IndexKeys == PropertyKeys \ {"PossibleDueToWildcard"}

\* C17 as stated: readyWalker(i), for an index i recorded on a node, returns
\* a walker in the state the live walker was in when the index was recorded.
\* An index equal to the length of the event list was recorded by the last
\* step, and the live walker has not moved since.
C17_ReplayMatchesLive ==
  Running =>
    \A n \in TreeNodes(live.root), k \in IndexKeys :
      GetNodeProperty(live, n, k) = Len(live.validationEvents) =>
        /\ ReadyWalker(live, Len(live.validationEvents)).exc = "none"
        /\ ReadyWalker(live, Len(live.validationEvents)).walker
             = live.validationWalker

\* The largest gap the walkerCacheGap option is given in the checks.
MaxGap == 3

\* A new walker on which the first k events of the list were fired in order.
Replayed(v, k) == Replay(NewWalker, v.validationEvents, 0, k)

\* Every walker in the cache of v is the replay of the event list up to its
\* key.
CacheConsistent(v) ==
  \A c \in v.walkerCache :
    /\ c.ix \in 0..Len(v.validationEvents)
    /\ c.walker = Replayed(v, c.ix)

\* The fragments that hold both an element and text.
MixedWrappers ==
  {w \in Wrappers :
     ChildElementCount(w) > 0 /\ Len(ChildNodes(w)) > ChildElementCount(w)}

BaseIndex(v, i) ==
  IF \E c \in v.walkerCache : c.ix < i
  THEN CHOOSE b \in {c.ix : c \in v.walkerCache} :
         b < i /\ \A c \in v.walkerCache : c.ix < i => c.ix <= b
  ELSE 0

C20_SpeculationFiresAll ==
  Running =>
    \A l \in Locations(live.root), wrapper \in Wrappers :
      LET r == GetWalkerAt([live EXCEPT !.props = Fresh(@, wrapper)], l[1], l[2],
                           FALSE)
      IN (r.exc = "none" /\ Dup(r, wrapper).exc = "none") =>
           Dup(r, wrapper).v.validationWalker.hist
             = r.walker.hist \o ContentEventsOf(wrapper, {}, 1, "")

\* The errors walker.end() reports.
EndErrors(errors) == {e \in Range(errors) : e.error.ev.kind = "end"}

\* C21: the private validator of a speculative validation, at any location
\* and for any fragment, returns from its run without having reached the END_TAG
\* stage of its root: EventIndexAfter of the wrapper is undefined, the working
\* state is neither VALID nor INVALID, and no error of walker.end() is among
\* those the call returns.
C21_SpeculationNeverFinalizes ==
  Running =>
    \A l \in Locations(live.root), wrapper \in Wrappers :
      LET r == GetWalkerAt([live EXCEPT !.props = Fresh(@, wrapper)], l[1], l[2],
                           FALSE)
          d == Dup(r, wrapper)
      IN r.exc = "none" =>
           /\ d.exc = "none"
           /\ ~PassCompleted(d.v)
           /\ ~Terminal(d.v)
           /\ EndErrors(Speculated(r, d, wrapper).ret) = {}

\* A speculative validation of <b/> that has run steps of the private
\* validator and returns no error, where walker.end() on the private walker
\* would report one.
C21_Witness ==
  /\ Running
  /\ \E l \in Locations(live.root) :
       LET r == GetWalkerAt([live EXCEPT !.props = Fresh(@, 20)], l[1], l[2], FALSE)
           d == Dup(r, 20)
       IN /\ r.exc = "none"
          /\ d.v.validationEvents # <<>>
          /\ d.v.workingState = "WORKING"
          /\ Speculated(r, d, 20).ret = <<>>
          /\ WalkerEnd(d.v.validationWalker) # <<>>

\* The namespace declarations in scope in the start tag of an element.
RECURSIVE ScopeAt(_)
ScopeAt(n) == IF IsElement(n) THEN Scope(ScopeAt(ParentNode(n)), n) ELSE {}

\* The elements of a tree whose tag name has a prefix no declaration in
\* scope binds.
UnresolvableElements(root) ==
  {e \in Descendants(root) :
     IsElement(e) /\ Dom[e].name.prefix # "" /\ ~Bound(ScopeAt(e), Dom[e].name.prefix)}

\* The errors "cannot resolve the name" recorded for element e.
UnresolvedNameErrors(v, e) ==
  SelectSeq(v.errors,
            LAMBDA d : /\ d.error.msg = "cannot resolve the name"
                       /\ d.error.ev.b = QStr(Dom[e].name)
                       /\ d.node = ParentNode(e)
                       /\ d.index = IndexOf(ParentNode(e), e))

\* C22: no traversal step throws; for an element whose name does not
\* resolve, no error for the name is on the list before its start tag is
\* processed and exactly one from then on (the end tag adds none), the
\* enterStartTag event fired for it has the empty namespace and the tag name;
\* and from every state of a tree with such an element the traversal runs on
\* to the end of the document, VALID or INVALID.
C22_UnresolvableNameRecovers ==
  Running =>
    /\ live.cycleEntered = 0
    /\ Cycle(live).exc = "none"
    /\ \A e \in UnresolvableElements(live.root) :
         /\ IF GetNodeProperty(live, e, "EventIndexBeforeAttributes") = Undef
            THEN Len(UnresolvedNameErrors(live, e)) = 0
            ELSE /\ Len(UnresolvedNameErrors(live, e)) = 1
                 /\ live.validationEvents[
                      GetNodeProperty(live, e, "EventIndexBeforeAttributes")]
                      = Ev("enterStartTag", "", QStr(Dom[e].name))
         /\ RunToCompletion(live).cycleEntered = 0
         /\ PassCompleted(RunToCompletion(live))
         /\ Terminal(RunToCompletion(live))
         /\ Len(UnresolvedNameErrors(RunToCompletion(live), e)) = 1

\* A pass over <a><q:b/><c/></a> that went through the start and end tags of
\* q:b and on to the end of the document: one error for the name, the
\* elements after it validated, the state INVALID.
C22_Witness ==
  /\ UnresolvableElements(live.root) # {}
  /\ PassCompleted(live)
  /\ live.workingState = "INVALID"
  /\ \A e \in UnresolvableElements(live.root) :
       /\ Len(UnresolvedNameErrors(live, e)) = 1
       /\ GetNodeProperty(live, e, "EventIndexAfter") # Undef
  /\ \A n \in Descendants(live.root) :
       IsElement(n) => GetNodeProperty(live, n, "EventIndexAfter") # Undef

\* The queries of a tree other than (root, negative index), which asks for
\* the whole document.
PartialQueries(root) ==
  {q \in AllQueries(root) : ~(q[1] = root /\ q[2] < 0 /\ ~q[3])}

\* A forced catch-up with result u left the document incomplete: the END_TAG
\* stage of the root (walker.end(), _stop(VALID or INVALID)) has not run.
LeftIncomplete(v, u) ==
  /\ ~PassCompleted(u.v)
  /\ Terminal(u.v) => u.v.workingState = v.workingState

\* C23 as stated: _validateUpTo(root, -1) runs the traversal to the end of
\* the document and leaves the validator VALID or INVALID; _validateUpTo at
\* any other location, in a pass that is not completed, does not run the
\* END_TAG stage of the root.
C23_OnlyRootEndFinalizes ==
  Running =>
    /\ ValidateUpTo(live, live.root, -1, FALSE).exc = "none"
    /\ PassCompleted(ValidateUpTo(live, live.root, -1, FALSE).v)
    /\ Terminal(ValidateUpTo(live, live.root, -1, FALSE).v)
    /\ \A q \in PartialQueries(live.root) :
         ~PassCompleted(live) =>
           LeftIncomplete(live, ValidateUpTo(live, q[1], q[2], q[3]))

\* The location is in the root, before its first element child, and a reset
\* has erased EventIndexAfterStart of the root, the property _validateUpTo
\* waits for there (only the constructor sets it).
WaitsForErased(v, q) ==
  /\ Target(v, q[1], q[2], q[3]).toInspect = v.root
  /\ Target(v, q[1], q[2], q[3]).dataKey = "EventIndexAfterStart"
  /\ ~Target(v, q[1], q[2], q[3]).skip
  /\ GetNodeProperty(v, v.root, "EventIndexAfterStart") = Undef

\* C23, what the code does: _validateUpTo(root, -1) runs a pass that is not
\* completed to the end, VALID or INVALID, and does nothing to a completed
\* one (which start() called twice has made WORKING); at any other location
\* it leaves the document incomplete, except where it waits for the erased
\* property of the root: there it runs the traversal through the END_TAG
\* stage of the root, whatever the pass had done, and never returns.
C23_FinalizesAtRootEndOrErased ==
  Running =>
    /\ ValidateUpTo(live, live.root, -1, FALSE).exc = "none"
    /\ PassCompleted(ValidateUpTo(live, live.root, -1, FALSE).v)
    /\ IF PassCompleted(live)
       THEN ValidateUpTo(live, live.root, -1, FALSE).v = live
       ELSE Terminal(ValidateUpTo(live, live.root, -1, FALSE).v)
    /\ \A q \in PartialQueries(live.root) :
         LET u == ValidateUpTo(live, q[1], q[2], q[3])
         IN IF WaitsForErased(live, q)
            THEN u.exc = "hang" /\ PassCompleted(u.v) /\ Terminal(u.v)
            ELSE /\ u.exc # "hang"
                 /\ ~PassCompleted(live) => LeftIncomplete(live, u)

\* After a restart, a pass not yet completed in which a catch-up at a
\* location in the root before the top element runs through the end of the
\* document.
C23_Witness ==
  /\ Running
  /\ ~PassCompleted(live)
  /\ live.validationEvents # <<>>
  /\ \E q \in PartialQueries(live.root) :
       /\ WaitsForErased(live, q)
       /\ PassCompleted(ValidateUpTo(live, q[1], q[2], q[3]).v)
       /\ Terminal(ValidateUpTo(live, q[1], q[2], q[3]).v)

\* C24 as stated: the working state is INCOMPLETE only while the validator is
\* stopped; with a tick pending it is not.
C24_IncompleteOnlyWhenStopped ==
  live.workingState = "INCOMPLETE" => live.timers = {}

\* C24, what the code does: start() and restartAt() set the working state to
\* WORKING only if a timer was pending when they were called, and leave it as
\* it was otherwise: INCOMPLETE after construction or stop(), VALID or INVALID
\* after a completed pass.
C24_StartKeepsStateUnlessPending ==
  Running =>
    /\ Start(live).workingState
         = IF live.timeoutId # Undef THEN "WORKING" ELSE live.workingState
    /\ RestartAt(live, live.root).workingState
         = IF live.timeoutId # Undef THEN "WORKING" ELSE live.workingState

\* A validator stopped in the middle of a pass and started again: a tick is
\* pending and the working state is INCOMPLETE.
C24_Witness ==
  /\ live.workingState = "INCOMPLETE"
  /\ live.timers # {} /\ live.timeoutId \in live.timers
  /\ live.validationEvents # <<>>
  /\ \E n \in Descendants(live.root) :
       GetNodeProperty(live, n, "EventIndexAfter") # Undef

\* C25 as stated: the event list is the sequence of the events fired on the
\* live walker in the current pass, text events included, in firing order.
C25_LogIsLiveHistory ==
  live.validationEvents = live.validationWalker.hist

\* The events fired on the live walker, text events left out.
FiredButText(v) == SelectSeq(v.validationWalker.hist, LAMBDA e : e.kind # "text")

\* The events of list b that are left over when the events of a are matched
\* in order with the earliest equal events of b, and an event named
\* "unmatched" if a is no subsequence of b.
RECURSIVE LeftOver(_, _)
LeftOver(a, b) ==
  IF a = <<>> THEN b
  ELSE IF b = <<>> THEN << Ev("unmatched", "", "") >>
  ELSE IF Head(a) = Head(b) THEN LeftOver(Tail(a), Tail(b))
  ELSE << Head(b) >> \o LeftOver(a, Tail(b))

\* C25, what the code does: the events fired on the live walker other than
\* text are on the event list in firing order; no text event is on the list;
\* the list holds in addition the attributeName events that queries in
\* attribute containers fired on clones.
C25_LogIsLiveHistoryButText ==
  /\ \A i \in 1..Len(live.validationEvents) : live.validationEvents[i].kind # "text"
  /\ \A e \in Range(LeftOver(FiredButText(live), live.validationEvents)) :
       e.kind = "attributeName"
  /\ Len(live.validationEvents)
       = Len(FiredButText(live))
         + Len(LeftOver(FiredButText(live), live.validationEvents))

\* A completed pass in which the live walker has received text that is not
\* on the list, and possibleAt in an attribute puts on the list an
\* attributeName event the live walker does not receive.
C25_Witness ==
  /\ PassCompleted(live)
  /\ \E i \in 1..Len(live.validationWalker.hist) :
       live.validationWalker.hist[i].kind = "text"
  /\ LeftOver(FiredButText(live), live.validationEvents) = <<>>
  /\ \E n \in TreeNodes(live.root) :
       /\ IsAttr(n)
       /\ PossibleAt(live, n, 0, FALSE).exc = "none"
       /\ PossibleAt(live, n, 0, FALSE).v.validationWalker = live.validationWalker
       /\ LeftOver(FiredButText(live),
                   PossibleAt(live, n, 0, FALSE).v.validationEvents)
            = << Ev("attributeName", "", Dom[n].name.local) >>

\* The event-index property k of node n, if set, has the same value after the
\* step.
KeepsIndex(n, k) ==
  live.props[n][k] # Undef => live'.props[n][k] = live.props[n][k]

\* C26 as stated: apart from restartAt, no operation changes an event-index
\* property of a node of the tree that is set.
C26_IndicesSetOnce ==
  [][DoRestartAt \/ \A n \in TreeNodes(live.root), k \in IndexKeys : KeepsIndex(n, k)]_vars

\* C26, what the code does: apart from restartAt, no operation changes an
\* event-index property that is set, except EventIndexAfter of the root: a
\* step taken at the END_TAG stage of the root after the pass has completed
\* sets it again, to the length the event list has then.
C26_IndicesSetOnceBelowRoot ==
  [][\/ DoRestartAt
     \/ /\ \A n \in TreeNodes(live.root), k \in IndexKeys :
             (n # live.root \/ k # "EventIndexAfter") => KeepsIndex(n, k)
        /\ \/ KeepsIndex(live.root, "EventIndexAfter")
           \/ /\ live.validationStage = "END_TAG" /\ live.curEl = live.root
              /\ live'.props[live.root]["EventIndexAfter"] = Len(live'.validationEvents)
              /\ live'.validationEvents = live.validationEvents]_vars

\* A completed pass whose root carries an EventIndexAfter written a second
\* time: it is beyond the index at the end of the top element, though no
\* event is fired between the two.
C26_Witness ==
  /\ PassCompleted(live)
  /\ LastElementChild(live.root) # Null
  /\ GetNodeProperty(live, live.root, "EventIndexAfter")
       > GetNodeProperty(live, LastElementChild(live.root), "EventIndexAfter")
  /\ GetNodeProperty(live, live.root, "EventIndexAfter") = Len(live.validationEvents)

\* The character data of each run of text nodes among `children`: a run ends
\* at an element or at the end of the list, and comments do not end it.
RECURSIVE RunsIn(_, _, _)
RunsIn(children, data, any) ==
  IF children = <<>> THEN (IF any THEN {data} ELSE {})
  ELSE CASE Kind(Head(children)) = "text" ->
              RunsIn(Tail(children), data \o Dom[Head(children)].data, TRUE)
         [] Kind(Head(children)) = "element" ->
              (IF any THEN {data} ELSE {}) \cup RunsIn(Tail(children), "", FALSE)
         [] OTHER -> RunsIn(Tail(children), data, any)

\* The runs of text of the tree under root.
TextRuns(root) ==
  UNION {RunsIn(ChildNodes(c), "", FALSE) : c \in Descendants(root)}

\* C27: the live walker never receives two text events in a row.  Every text
\* event it has received carries the joined data of one whole run of text
\* nodes of the tree (comments skipped), and is followed at once, in the same
\* step, by the enterContext of the next element or the endTag of the parent.
C27_OneTextEventPerRun ==
  \A i \in 1..Len(live.validationWalker.hist) :
    live.validationWalker.hist[i].kind = "text" =>
      /\ live.validationWalker.hist[i].a \in TextRuns(live.root)
      /\ i < Len(live.validationWalker.hist)
      /\ live.validationWalker.hist[i + 1].kind \in {"enterContext", "endTag"}

\* The live walker has received, as one event before the start of b, the text
\* "s" and "t" that a comment separates.
C27_Witness ==
  /\ live.root = 33
  /\ \E i \in 1..(Len(live.validationWalker.hist) - 1) :
       /\ live.validationWalker.hist[i] = Ev("text", "st", "")
       /\ live.validationWalker.hist[i + 1] = ENTER_CONTEXT_EVENT

\* The validator with no notification recorded yet.
Unpublished(v) == [v EXCEPT !.wildcardChanges = {}]

\* The nodes whose PossibleDueToWildcard differs between v and u.
FlagChanged(v, u) ==
  {n \in Nodes : u.props[n]["PossibleDueToWildcard"] # v.props[n]["PossibleDueToWildcard"]}

\* The elements and attributes of the tree, with the event their name is
\* tested for.
Flagged(root) ==
  {<<n, IF Kind(n) = "attribute" THEN "attributeName" ELSE "enterStartTag">> :
     n \in {m \in TreeNodes(root) : Kind(m) \in {"element", "attribute"}}}

\* C28: evaluating the flag of a node against the live walker publishes a
\* notification, for that node only, exactly when the value computed differs
\* from the value stored (undefined included); and a step or a query publishes
\* for no node whose flag it leaves as it was.
C28_PublishedOnlyOnChange ==
  /\ \A f \in Flagged(live.root) :
       LET n == f[1]
           possible == BoolVal(IsPossibleDueToWildcard(live.validationWalker, f[2], "",
                                                       Dom[n].name.local))
           r == SetPossibleDueToWildcard(Unpublished(live), n, live.validationWalker,
                                         f[2], "", Dom[n].name.local)
       IN /\ r.wildcardChanges \subseteq {n}
          /\ n \in r.wildcardChanges
               <=> GetNodeProperty(live, n, "PossibleDueToWildcard") # possible
          /\ GetNodeProperty(r, n, "PossibleDueToWildcard") = possible
  /\ (Running /\ live.cycleEntered = 0) =>
       /\ Cycle(Unpublished(live)).v.wildcardChanges
            \subseteq FlagChanged(live, Cycle(Unpublished(live)).v)
       /\ \A q \in QueryPoints(live.root) :
            LET r == PossibleAt(Unpublished(live), q[1], q[2], q[3])
            IN r.v.wildcardChanges \subseteq FlagChanged(live, r.v)

\* The flag of an attribute is set and a query in that attribute, which
\* evaluates it again, publishes nothing, while the next step publishes for
\* the element it starts.
C28_Witness ==
  /\ Running /\ live.cycleEntered = 0
  /\ \E q \in QueryPoints(live.root) :
       /\ Kind(q[1]) = "attribute"
       /\ GetNodeProperty(live, q[1], "PossibleDueToWildcard") # Undef
       /\ PossibleAt(Unpublished(live), q[1], q[2], q[3]).exc = "none"
       /\ PossibleAt(Unpublished(live), q[1], q[2], q[3]).v.wildcardChanges = {}
  /\ Cycle(Unpublished(live)).v.wildcardChanges # {}
  /\ live.wildcardChanges # {}

\* The positions (container, index) in the elements and the document of a
\* tree, index from 0 to the number of children.
ChildPositions(root) ==
  {l \in Locations(root) : Kind(l[1]) \in {"element", "document"} /\ l[2] >= 0}

\* The 1-based place of the last element among the first `index` children of
\* the container, 0 if there is none.
LastElementWithin(container, index) ==
  LET at == {p \in 1..index : Kind(ChildNodes(container)[p]) = "element"}
  IN IF at = {} THEN 0 ELSE CHOOSE p \in at : \A o \in at : o <= p

\* The data of the text nodes at places p..index of the container, in order.
RECURSIVE TextDataWithin(_, _, _)
TextDataWithin(container, p, index) ==
  IF p > index THEN ""
  ELSE (IF Kind(ChildNodes(container)[p]) = "text"
        THEN Dom[ChildNodes(container)[p]].data ELSE "")
       \o TextDataWithin(container, p + 1, index)

\* The text event for all the text between the element before position index
\* (or the start of the container) and that position; none without text.
TextEventBefore(container, index) ==
  IF \E p \in (LastElementWithin(container, index) + 1)..index :
       Kind(ChildNodes(container)[p]) = "text"
  THEN << Ev("text", TextDataWithin(container, LastElementWithin(container, index) + 1,
                                    index), "") >>
  ELSE <<>>

\* The text events a walker received last.
RECURSIVE TrailingText(_)
TrailingText(hist) ==
  IF hist = <<>> \/ hist[Len(hist)].kind # "text" THEN <<>>
  ELSE Append(TrailingText(SubSeq(hist, 1, Len(hist) - 1)), hist[Len(hist)])

\* C29 as stated: the walker _getWalkerAt returns for a position in an
\* element or the document has received, after the events of the replay, one
\* text event for all the text between the preceding element sibling (or the
\* start of the container) and the position, comments or not.
C29_ResolverFiresTextBefore ==
  (Running /\ live.cycleEntered = 0) =>
    \A l \in ChildPositions(live.root) :
      LET r == GetWalkerAt(live, l[1], l[2], FALSE)
      IN r.exc = "none" => TrailingText(r.walker.hist) = TextEventBefore(l[1], l[2])

\* C29, what the code does: the walker returned has received, after the
\* events of the replay, the data of the one text node that immediately
\* precedes the child at the position, and no text event when there is no
\* child at the position or the node before it is not a text node.
C29_ResolverFiresPreviousTextNode ==
  (Running /\ live.cycleEntered = 0) =>
    \A l \in ChildPositions(live.root) :
      LET r == GetWalkerAt(live, l[1], l[2], FALSE)
          node == ChildAt(l[1], l[2])
      IN r.exc = "none" =>
           TrailingText(r.walker.hist) =
             IF node # Null /\ PreviousSibling(node) # Null
                /\ Kind(PreviousSibling(node)) = "text"
             THEN << Ev("text", Dom[PreviousSibling(node)].data, "") >>
             ELSE <<>>

\* On <a>s<!-- -->t<b/></a>, after a completed pass: before the comment the
\* walker has received "s", as the live walker would; before b it has
\* received "t" where the live walker received "st"; at the end of a, after
\* b, it has received no text.
C29_Witness ==
  /\ live.root = 33 /\ Running /\ live.cycleEntered = 0
  /\ PassCompleted(live)
  /\ TrailingText(GetWalkerAt(live, 34, 1, FALSE).walker.hist) = << Ev("text", "s", "") >>
  /\ TextEventBefore(34, 1) = << Ev("text", "s", "") >>
  /\ TrailingText(GetWalkerAt(live, 34, 3, FALSE).walker.hist) = << Ev("text", "t", "") >>
  /\ TextEventBefore(34, 3) = << Ev("text", "st", "") >>
  /\ \E i \in 1..Len(live.validationWalker.hist) :
       live.validationWalker.hist[i] = Ev("text", "st", "")

\* The number of start tags and end tags among the events.
TagCount(events) ==
  Len(SelectSeq(events, LAMBDA e : e.kind \in {"enterStartTag", "endTag"}))

\* The events the live walker received in the step with result c taken in v.
StepEvents(v, c) ==
  SubSeq(c.v.validationWalker.hist, Len(v.validationWalker.hist) + 1,
         Len(c.v.validationWalker.hist))

\* The number of steps taken from v up to and including the first one that
\* reports no more work, counted up to `limit`.
RECURSIVE StepsToFinish(_, _)
StepsToFinish(v, limit) ==
  IF limit = 0 \/ Cycle(v).exc # "none" \/ ~Cycle(v).ret THEN 1
  ELSE 1 + StepsToFinish(Cycle(v).v, limit - 1)

\* The elements below the root.
ElementsBelow(root) == {n \in Descendants(root) : n # root /\ Kind(n) = "element"}

\* C30: a step that reports more work has fired exactly one enterStartTag or
\* exactly one endTag on the live walker; a step that reports no more work is
\* at the root's end stage, fires neither and leaves the pass completed.  From
\* any state of a pass not yet completed, the steps already taken (one per
\* tag fired) and the steps left add up to 2n+1, n the number of elements
\* below the root; so does a run of a new validator.
C30_OneTagPerStep ==
  (Running /\ live.cycleEntered = 0) =>
    /\ Cycle(live).exc = "none"
    /\ IsPrefixOf(live.validationWalker.hist, Cycle(live).v.validationWalker.hist)
    /\ IF Cycle(live).ret
       THEN /\ TagCount(StepEvents(live, Cycle(live))) = 1
            /\ ~PassCompleted(Cycle(live).v)
       ELSE /\ TagCount(StepEvents(live, Cycle(live))) = 0
            /\ live.curEl = live.root /\ PassCompleted(Cycle(live).v)
    /\ ~PassCompleted(live) =>
         TagCount(live.validationWalker.hist) + StepsToFinish(live, RunSteps)
           = 2 * Cardinality(ElementsBelow(live.root)) + 1
    /\ StepsToFinish(NewValidator(live.root, live.walkerCacheGap,
                                  [n \in Nodes |-> NoProps]), RunSteps)
         = 2 * Cardinality(ElementsBelow(live.root)) + 1

\* A pass over a tree with three elements below the root is under way: four
\* tags are fired, three steps are left, the next one closes an element.
C30_Witness ==
  /\ Running /\ live.cycleEntered = 0
  /\ Cardinality(ElementsBelow(live.root)) = 3
  /\ TagCount(live.validationWalker.hist) = 4
  /\ StepsToFinish(live, RunSteps) = 3
  /\ Cycle(live).ret
  /\ StepEvents(live, Cycle(live))[1].kind = "endTag"

\* C31 as stated: partDone lies between 0 and 1, no step lowers it, and the
\* step that reaches a terminal state leaves it at 1.
C31_ProgressNeverDecreases ==
  /\ NumLeq(Num0, live.partDone) /\ NumLeq(live.partDone, PartUnit)
  /\ Cycle(live).exc = "none" =>
       /\ NumLeq(live.partDone, Cycle(live).v.partDone)
       /\ ~Cycle(live).ret => Cycle(live).v.partDone = PartUnit

\* C31, what the code does: partDone lies between 0 and 1; the step that
\* reaches a terminal state leaves it at 1; a step that processes a start tag
\* leaves it as it is; and a step lowers it only when it closes an element
\* with three element children, whose portions, each a rounded third, have
\* added up to more than the portion of the element.
C31_ProgressDecreasesByRounding ==
  /\ NumLeq(Num0, live.partDone) /\ NumLeq(live.partDone, PartUnit)
  /\ Cycle(live).exc = "none" =>
       /\ ~Cycle(live).ret => Cycle(live).v.partDone = PartUnit
       /\ (Cycle(live).ret /\ Cycle(live).v.previousChild = Null) =>
            Cycle(live).v.partDone = live.partDone
       /\ ~NumLeq(live.partDone, Cycle(live).v.partDone) =>
            /\ Cycle(live).ret
            /\ Cycle(live).v.previousChild # Null
            /\ ChildElementCount(Cycle(live).v.previousChild) = 3
            /\ Cycle(live).v.partDone
                 = NumAdd(Head(Tail(live.validationStack)).partDone,
                          Head(live.validationStack).portion)

\* In the first pass the three children of c are closed; partDone is
\* 1/3 + 1/9 + 1/9 + 1/9 = 0.6666666666666667 and the step that closes c sets
\* it to 1/3 + 1/3 = 0.6666666666666666.
C31_Witness ==
  /\ GetNodeProperty(live, live.root, "EventIndexAfterStart") # Undef
  /\ Len(live.validationStack) = 3
  /\ live.partDone = NumAdd(NumAdd(NumAdd(NumDiv(Num1, 3), NumDiv(NumDiv(Num1, 3), 3)),
                                   NumDiv(NumDiv(Num1, 3), 3)),
                            NumDiv(NumDiv(Num1, 3), 3))
  /\ Cycle(live).ret /\ Cycle(live).v.previousChild = 42
  /\ Cycle(live).v.partDone = NumAdd(NumDiv(Num1, 3), NumDiv(Num1, 3))
  /\ Cycle(live).v.partDone # live.partDone
  /\ NumLeq(Cycle(live).v.partDone, live.partDone)

\* The number of tree levels between the root and a node below it.
RECURSIVE Depth(_, _)
Depth(n, root) == IF n = root THEN 0 ELSE 1 + Depth(ParentNode(n), root)

\* The bottom frame of the progress stack.
BottomFrame(v) == v.validationStack[Len(v.validationStack)]

\* C32 as stated: between steps the progress stack has one frame per level
\* from the root to the current element, and its bottom frame has portion 1.
C32_OneFramePerLevel ==
  live.cycleEntered = 0 =>
    /\ Len(live.validationStack) = Depth(live.curEl, live.root) + 1
    /\ BottomFrame(live).portion = PartUnit

\* C32, what the code does: the bottom frame is the one of the constructor,
\* never touched; the stack has at least one frame per level; the frame of
\* the root's top element is never popped, so once that element is closed the
\* stack holds a frame more than the levels, and a step from there on never
\* brings it back to one frame per level.
C32_TopFrameNeverPopped ==
  live.cycleEntered = 0 =>
    /\ BottomFrame(live) = ProgressState(Num0, PartUnit)
    /\ Len(live.validationStack) >= Depth(live.curEl, live.root) + 1
    /\ (live.previousChild # Null /\ live.curEl = live.root) =>
         Len(live.validationStack) >= 2
    /\ (Len(live.validationStack) > Depth(live.curEl, live.root) + 1
          /\ Cycle(live).exc = "none") =>
         Len(Cycle(live).v.validationStack)
           > Depth(Cycle(live).v.curEl, live.root) + 1

\* The top element has just been closed in the first pass: the traversal is
\* back at the root, between steps, and two frames are on the stack.
C32_Witness ==
  /\ live.cycleEntered = 0
  /\ live.curEl = live.root /\ live.previousChild # Null
  /\ live.validationStage = "CONTENTS"
  /\ GetNodeProperty(live, live.root, "EventIndexAfterStart") # Undef
  /\ GetNodeProperty(live, live.previousChild, "EventIndexAfter") # Undef
  /\ Len(live.validationStack) = 2
  /\ Depth(live.curEl, live.root) = 0

\* No annotation but the flags of the possible-due-to-wildcard is left.
NoEventIndex(v) ==
  \A n \in Descendants(v.root) :
    \A key \in PropertyKeys \ {"PossibleDueToWildcard"} :
      GetNodeProperty(v, n, key) = Undef

TerminalReached(v) ==
  /\ v.workingState \in {"VALID", "INVALID"}
  /\ GetNodeProperty(v, v.root, "EventIndexAfter") # Undef
  /\ v.cycleEntered = 0

\* The tick that start() schedules, run on the state start() leaves.
StartedTick(v) == WorkWrapper(Start(v), Start(v).timeoutId, 1)

\* C34 as stated: after a terminal state, start() and the tick it schedules
\* leave the error list, the event log and the working state as they are.
C34_StartAfterTerminalChangesNothing ==
  TerminalReached(live) =>
    /\ Start(live).errors = live.errors
    /\ Start(live).validationEvents = live.validationEvents
    /\ Start(live).workingState = live.workingState
    /\ StartedTick(live).errors = live.errors
    /\ StartedTick(live).validationEvents = live.validationEvents
    /\ StartedTick(live).workingState = live.workingState

\* C34, what the code does: start() itself leaves the error list and the
\* event log, and the working state unless a timer is pending (a second
\* start()), which makes it WORKING.  The tick it schedules runs the END_TAG
\* stage of the root again: the event log is left as it is, walker.end() is
\* called again and its errors are appended again, and the validator stops
\* in the terminal state it was in.
C34_StartAfterTerminalEndsAgain ==
  TerminalReached(live) =>
    /\ Start(live).errors = live.errors
    /\ Start(live).validationEvents = live.validationEvents
    /\ Start(live).workingState
         = IF live.timeoutId # Undef THEN "WORKING" ELSE live.workingState
    /\ StartedTick(live).validationEvents = live.validationEvents
    /\ StartedTick(live).workingState = live.workingState
    /\ StartedTick(live).timers = {}
    /\ Len(StartedTick(live).errors)
         = Len(live.errors) + Len(WalkerEnd(live.validationWalker))
    /\ SubSeq(StartedTick(live).errors, 1, Len(live.errors)) = live.errors
    /\ \A i \in (Len(live.errors) + 1)..Len(StartedTick(live).errors) :
         /\ StartedTick(live).errors[i].error.ev.kind = "end"
         /\ StartedTick(live).errors[i].node = live.root

\* An incomplete document was finalized as INVALID, start() was called and
\* its tick has run: the error of walker.end() is on the error list twice.
C34_Witness ==
  /\ TerminalReached(live)
  /\ live.workingState = "INVALID"
  /\ live.timers = {}
  /\ WalkerEnd(live.validationWalker) # <<>>
  /\ Cardinality({i \in 1..Len(live.errors) : live.errors[i].error.ev.kind = "end"}) = 2

\* C35 as stated: stop() leaves no timer pending (where no timer but the one
\* _timeoutId names is), and neither does a tick during which a handler
\* called stop().
C35_NoTimerAfterStop ==
  /\ live.timers \subseteq {live.timeoutId} => Stop(live, "undefined").timers = {}
  /\ outcome = "called stop" => live.timers = {}

\* C35, what the code does: stop() clears the timer _timeoutId names, which
\* is every pending timer unless a handler's restartAt left a second one.  A
\* tick during which a handler called stop() schedules the next tick all the
\* same, unless its step was the last of the pass: the timer is pending with
\* the working state INCOMPLETE, and its tick runs a step.
C35_TickReschedulesAfterStop ==
  /\ Stop(live, "undefined").timers = live.timers \ {live.timeoutId}
  /\ Stop(live, "undefined").timeoutId = Undef
  /\ live.timers \subseteq {live.timeoutId} => Stop(live, "undefined").timers = {}
  /\ outcome = "called stop" =>
       /\ live.timeoutId \notin live.timers
            <=> GetNodeProperty(live, live.root, "EventIndexAfter") # Undef
       /\ live.timeoutId \in live.timers =>
            /\ live.workingState = "INCOMPLETE"
            /\ Work([live EXCEPT !.timers = {}], 1).exc = "none"
            /\ Work([live EXCEPT !.timers = {}], 1).v
                 # [live EXCEPT !.timers = {}]

\* A handler called stop() during a tick in the middle of a pass, and a timer
\* is pending after the tick.
C35_Witness ==
  /\ outcome = "called stop"
  /\ live.timers # {}
  /\ live.workingState = "INCOMPLETE"
  /\ live.previousChild # Null
  /\ GetNodeProperty(live, live.root, "EventIndexAfter") = Undef

\* The nodes that hold an event index.
Annotated(v) ==
  {n \in Descendants(v.root) :
     \E key \in PropertyKeys \ {"PossibleDueToWildcard"} :
       GetNodeProperty(v, n, key) # Undef}

\* C36 as stated: after a step during which a handler called restartAt, the
\* position is the root in Contents stage with no previous child, the event
\* log is empty and no node holds an event index of the discarded pass.
C36_RestartInStepLeavesNothing ==
  outcome = "called restartAt" =>
    /\ live.curEl = live.root /\ live.validationStage = "CONTENTS"
    /\ live.previousChild = Null
    /\ live.validationEvents = <<>>
    /\ NoEventIndex(live)

\* C36, what the code does: the position and the event log are those of the
\* reset, but the END_TAG stage, going on after the notification, sets
\* EventIndexAfter of the element it had closed, to the length of the new
\* log, 0: one element of the discarded pass is annotated as ended, unless
\* the step was the root's END_TAG.  The timer of the handler's start() is
\* then pending beside the one the tick sets when it returns.
C36_RestartInStepKeepsEndIndex ==
  outcome = "called restartAt" =>
    /\ live.curEl = live.root /\ live.validationStage = "CONTENTS"
    /\ live.previousChild = Null
    /\ live.validationEvents = <<>>
    /\ live.validationWalker = NewWalker
    /\ Cardinality(Annotated(live)) <= 1
    /\ \A n \in Annotated(live) :
         /\ IsElement(n)
         /\ GetNodeProperty(live, n, "EventIndexAfter") = 0
         /\ GetNodeProperty(live, n, "EventIndexAfterStart") = Undef
         /\ GetNodeProperty(live, n, "EventIndexBeforeAttributes") = Undef
         /\ GetNodeProperty(live, n, "EventIndexAfterAttributes") = Undef
    /\ Annotated(live) # {} =>
         /\ live.timeoutId \in live.timers
         /\ live.timers # {live.timeoutId}

\* A handler called restartAt during the step that closed an element two
\* levels deep: the element is annotated as ended at index 0 of the new log.
C36_Witness ==
  /\ outcome = "called restartAt"
  /\ live.validationEvents = <<>>
  /\ \E n \in Annotated(live) :
       /\ ParentNode(n) # live.root
       /\ GetNodeProperty(live, n, "EventIndexAfter") = 0

\* C37 as stated: between steps the counter of steps in flight is 0.
C37_CounterZeroBetweenSteps == live.cycleEntered = 0

\* C37, what the code does: a step that ends normally, and one that throws
\* at its entry, leave the counter as it was; a step that throws on an
\* unexpected node returns without decrementing it.  The counter is then 1
\* for good: restartAt leaves it at 1 and every later step throws at its
\* entry as re-entered.
C37_CounterStuckAfterThrow ==
  /\ live.cycleEntered \in {0, 1}
  /\ Cycle(live).exc \in {"none", "_cycle is being reentered"} =>
       Cycle(live).v.cycleEntered = live.cycleEntered
  /\ Cycle(live).exc = "unexpected node type" =>
       /\ live.cycleEntered = 0
       /\ Cycle(live).v.cycleEntered = 1
  /\ live.cycleEntered = 1 =>
       /\ \E n \in Descendants(live.root) :
            Kind(n) \notin {"document", "element", "text", "comment", "attribute"}
       /\ RestartAt(live, live.root).cycleEntered = 1
       /\ Cycle(RestartAt(live, live.root)).exc = "_cycle is being reentered"
       /\ Cycle(Start(live)).exc = "_cycle is being reentered"
       /\ Cycle(Start(live)).v.validationEvents = live.validationEvents

\* A step threw on the processing instruction, restartAt was called and its
\* tick has run: the counter is 1 and the new pass has not moved.
C37_Witness ==
  /\ live.cycleEntered = 1
  /\ live.resetErrors >= 1
  /\ ~live.restarting
  /\ live.timers = {}
  /\ live.validationEvents = <<>>
  /\ live.curEl = live.root

\* C38 as stated: no call of possibleAt or getErrorsFor runs for ever.
C38_QueriesTerminate == outcome # "hang"

\* C38, what the code does: possibleAt and getErrorsFor end (with a result or
\* an error) except at the locations in the root before its first element
\* child once a restartAt has erased EventIndexAfterStart of the root: there
\* the catch-up runs the traversal to its end and goes on calling _cycle for
\* a property no step sets.
C38_HangsWhereRootStartErased ==
  /\ outcome = "hang" =>
       /\ GetNodeProperty(live, live.root, "EventIndexAfterStart") = Undef
       /\ GetNodeProperty(live, live.root, "EventIndexAfter") # Undef
       /\ ~Cycle(live).ret
       /\ GetNodeProperty(Cycle(live).v, live.root, "EventIndexAfterStart") = Undef
  /\ Running =>
       /\ \A q \in QueryPoints(live.root) :
            PossibleAt(live, q[1], q[2], q[3]).exc = "hang"
              <=> WaitsForErased(live, q)
       /\ \A n \in Descendants(live.root) :
            ParentNode(n) # Null =>
              (GetErrorsFor(live, n).exc = "hang"
                 <=> WaitsForErased(live, <<ParentNode(n),
                                            IndexOf(ParentNode(n), n) + 1, FALSE>>))

\* After a restartAt, possibleAt at the location between the comment and the
\* top element has run the whole traversal and does not return; getErrorsFor
\* of the comment would do the same.
C38_Witness ==
  /\ outcome = "hang"
  /\ live.root = 6
  /\ GetNodeProperty(live, live.root, "EventIndexAfter") # Undef
  /\ GetNodeProperty(live, live.root, "EventIndexAfterStart") = Undef
  /\ WaitsForErased(live, <<6, 1, FALSE>>)
  /\ WaitsForErased(live, <<ParentNode(7), IndexOf(ParentNode(7), 7) + 1, FALSE>>)

\* The event indices of an element whose tags were processed are in order
\* and within the event log.
IndicesInOrder(v, n) ==
  /\ GetNodeProperty(v, n, "EventIndexBeforeAttributes") # Undef
  /\ GetNodeProperty(v, n, "EventIndexAfterAttributes") # Undef
  /\ GetNodeProperty(v, n, "EventIndexBeforeAttributes") >= 0
  /\ GetNodeProperty(v, n, "EventIndexBeforeAttributes")
       <= GetNodeProperty(v, n, "EventIndexAfterAttributes")
  /\ GetNodeProperty(v, n, "EventIndexAfterStart")
       = GetNodeProperty(v, n, "EventIndexAfterAttributes") + 1
  /\ GetNodeProperty(v, n, "EventIndexAfterStart") <= Len(v.validationEvents)
  /\ GetNodeProperty(v, n, "EventIndexAfter") # Undef =>
       /\ GetNodeProperty(v, n, "EventIndexAfter")
            >= GetNodeProperty(v, n, "EventIndexAfterStart") + 2
       /\ GetNodeProperty(v, n, "EventIndexAfter") <= Len(v.validationEvents)

\* The event indices of an element lie between EventIndexAfterStart and
\* EventIndexAfter of its parent element p.
IndicesWithin(v, n, p) ==
  /\ GetNodeProperty(v, p, "EventIndexAfterStart") # Undef
  /\ GetNodeProperty(v, p, "EventIndexAfterStart")
       <= GetNodeProperty(v, n, "EventIndexBeforeAttributes")
  /\ GetNodeProperty(v, p, "EventIndexAfter") # Undef =>
       /\ GetNodeProperty(v, n, "EventIndexAfter") # Undef
       /\ GetNodeProperty(v, n, "EventIndexAfter")
            <= GetNodeProperty(v, p, "EventIndexAfter")

RECURSIVE PartsDone(_, _)
PartsDone(v, limit) ==
  IF limit = 0 \/ Cycle(v).exc # "none" THEN <<>>
  ELSE (IF Cycle(v).v.partDone # v.partDone THEN << Cycle(v).v.partDone >> ELSE <<>>)
       \o (IF Cycle(v).ret THEN PartsDone(Cycle(v).v, limit - 1) ELSE <<>>)

\* The steps of a pass over the largest tree, and more.
PassSteps == 20

\* C40 as stated: the run that follows a restartAt publishes the values of
\* partDone a new validator publishes on the same tree, and starts from one
\* frame of portion 1.
C40_RestartedRunAsFresh ==
  live.restarting =>
    /\ PartsDone(live, PassSteps)
         = PartsDone(NewValidator(live.root, live.walkerCacheGap,
                                  [n \in Nodes |-> NoProps]), PassSteps)
    /\ live.validationStack = << ProgressState(Num0, PartUnit) >>

\* C40, what the code does: restartAt leaves the progress stack as it is, and
\* the run that follows starts with the portion of the frame on top of it.
\* It publishes the values of a new validator where that portion is 1 (the
\* restart came before the first element was opened, or after the top
\* element was closed), and other values where it is a third or a ninth.
C40_RestartedRunFromTopFrame ==
  live.restarting =>
    /\ RestartAt(live, live.root).validationStack = live.validationStack
    /\ PartsDone(live, PassSteps)
         = PartsDone(NewValidator(live.root, live.walkerCacheGap,
                                  [n \in Nodes |-> NoProps]), PassSteps)
       <=> (Head(live.validationStack).portion = PartUnit
              \/ PartsDone(live, PassSteps) = <<>>)

\* restartAt was called while the traversal was inside c, two levels deep:
\* three frames are on the stack, the top one has portion 1/3, and the run
\* that follows publishes 1/9 first where a new validator publishes 1/3.
C40_Witness ==
  /\ live.restarting
  /\ Len(live.validationStack) = 3
  /\ Head(live.validationStack).portion = NumDiv(Num1, 3)
  /\ PartsDone(live, PassSteps)[1] = NumDiv(NumDiv(Num1, 3), 3)
  /\ PartsDone(NewValidator(live.root, live.walkerCacheGap,
                            [n \in Nodes |-> NoProps]), PassSteps)[1]
       = NumDiv(Num1, 3)
  /\ PartsDone(live, PassSteps)[Len(PartsDone(live, PassSteps))] = PartUnit

====
